---- MODULE Spec2Model ----
(***************************************************************************)
(* A model of figma-cli:                                                   *)
(*   src/src/utils/nodes.ts     normalizeNodeId, parseNodeIdsCsv,          *)
(*                              findNodePath, buildParentMap, toTree       *)
(*   src/src/commands/styles.ts inferPaddingFromChildren, buildStyleDetails*)
(*                              getNodeStyles, setupAuth                   *)
(*   src/src/commands/diff.ts   the snapshot and the diff of two nodes     *)
(*   src/src/commands/export.ts parseCropRect, resolveExportScale,         *)
(*                              applyPngCrop, exportAssets                 *)
(*   src/src/cli.ts             the commands and their error handling      *)
(*   src/unnamed/part_002..005  audit, comments, inspect, the config layer *)
(*                                                                         *)
(* JavaScript values are modelled as follows.                              *)
(*   string      a sequence of one-character strings                       *)
(*   undefined   the record Undefined; null is the record Null             *)
(*   number      Num(n), n an integer number of thousandths (of a pixel)   *)
(*   array       a sequence; an optional array is Arr(seq) or Undefined    *)
(*   object      a record                                                  *)
(***************************************************************************)
EXTENDS Integers, Sequences, FiniteSets, TLC

VARIABLES
    value,      \* the string handed to normalizeNodeId / parseNodeIdsCsv
    idCall,     \* which function of the ID normalizer has been applied
    idOut,      \* what it returned
    root,       \* the node graph handed to the tree utilities
    nodeCall,   \* which tree utility has been applied, with its argument
    nodeOut,    \* what it returned
    styleNode,  \* the node handed to the style deriver
    styleCall,  \* which function of the style deriver has been applied
    styleOut,   \* what it returned
    diffDoc,    \* the file document the diff command reads its two nodes from
    diffCall,   \* the diff command's call, with the two nodes it was given
    diffOut,    \* the two snapshots it took and the diff it built
    auditStats, \* what the audit's traversal counts in the audited subtree
    auditStyles,\* the number of shared styles the audited file defines
    auditCall,  \* the last step: an audit run, or an edit of the subtree
    auditOut,   \* the result of the last audit run
    cmdInput,   \* the command being run, its options and the configured tokens
    cmdSteps,   \* the steps of its handler that remain to be run
    cmdLog,     \* what it has done so far: requests, failures, outputs, writes
    cmdStatus,  \* running, done, or exited with status 1
    cmdExported,\* the export command's counter of exported assets
    commentList,\* the comments the API returns for the file
    commentCall,\* the comments command's call, with its options
    commentOut, \* what it printed
    exportArgs, \* the arguments handed to a helper of the export command
    exportCall, \* which helper of the export command has been applied
    exportOut,  \* what it returned, or the error it threw
    authInput,  \* the auth command's options and the token typed at its prompt
    configFile, \* the content of the CLI's config file
    profileFile,\* the content of the shell profile
    authPc,     \* where the auth command stands
    authLog     \* the files it has written, in order

idVars == <<value, idCall, idOut>>
nodeVars == <<root, nodeCall, nodeOut>>
styleVars == <<styleNode, styleCall, styleOut>>
diffVars == <<diffDoc, diffCall, diffOut>>
auditVars == <<auditStats, auditStyles, auditCall, auditOut>>
cmdVars == <<cmdInput, cmdSteps, cmdLog, cmdStatus, cmdExported>>
commentVars == <<commentList, commentCall, commentOut>>
exportVars == <<exportArgs, exportCall, exportOut>>
authVars == <<authInput, configFile, profileFile, authPc, authLog>>
vars == <<idVars, nodeVars, styleVars, diffVars, auditVars, cmdVars, commentVars,
          exportVars, authVars>>

----------------------------------------------------------------------------
(* Bounds *)

MaxLen == 5
MaxNodes == 3
MaxDepth == 3
MaxChildren == 2

----------------------------------------------------------------------------
(* JavaScript values *)

Undefined == [kind |-> "undefined"]
Null == [kind |-> "null"]
Num(n) == [kind |-> "number", val |-> n]
Str(s) == [kind |-> "string", val |-> s]
Arr(items) == [kind |-> "array", items |-> items]

IsNumber(v) == v.kind = "number"
IsArray(v) == v.kind = "array"

NoCall == [fn |-> "none"]

----------------------------------------------------------------------------
(* Strings: src/src/utils/nodes.ts *)

Whitespace == {" "}

RECURSIVE TrimStart(_)
TrimStart(s) ==
    IF s # <<>> /\ Head(s) \in Whitespace THEN TrimStart(Tail(s)) ELSE s

RECURSIVE TrimEnd(_)
TrimEnd(s) ==
    IF s # <<>> /\ s[Len(s)] \in Whitespace
    THEN TrimEnd(SubSeq(s, 1, Len(s) - 1))
    ELSE s

\* String.prototype.trim
Trim(s) == TrimEnd(TrimStart(s))

\* String.prototype.replace(/-/g, ':')
ReplaceAllDashes(s) == [i \in 1..Len(s) |-> IF s[i] = "-" THEN ":" ELSE s[i]]

\* String.prototype.replace('-', ':'): the first dash only
ReplaceFirstDash(s) ==
    [i \in 1..Len(s) |->
        IF s[i] = "-" /\ \A j \in 1..(i - 1) : s[j] # "-" THEN ":" ELSE s[i]]

normalizeNodeId_FirstDashOnly(nodeId) == ReplaceFirstDash(Trim(nodeId))

normalizeNodeId(nodeId) == ReplaceAllDashes(Trim(nodeId))

\* String.prototype.split(',')
RECURSIVE Split(_)
Split(s) ==
    IF \A i \in 1..Len(s) : s[i] # ","
    THEN <<s>>
    ELSE LET c == CHOOSE i \in 1..Len(s) :
                      s[i] = "," /\ \A j \in 1..(i - 1) : s[j] # ","
         IN  <<SubSeq(s, 1, c - 1)>> \o Split(SubSeq(s, c + 1, Len(s)))

\* Array.prototype.filter(Boolean) on strings: the empty string is falsy
RECURSIVE FilterBoolean(_)
FilterBoolean(parts) ==
    IF parts = <<>> THEN <<>>
    ELSE IF Head(parts) = <<>> THEN FilterBoolean(Tail(parts))
    ELSE <<Head(parts)>> \o FilterBoolean(Tail(parts))

parseNodeIdsCsv_NoFilter(v) ==
    LET parts == Split(v) IN [k \in 1..Len(parts) |-> normalizeNodeId(parts[k])]

parseNodeIdsCsv(v) ==
    LET parts == Split(v)
    IN  FilterBoolean([k \in 1..Len(parts) |-> normalizeNodeId(parts[k])])

Chars == {"1", "2", "-", ":", " ", ","}
\* the strings of at most maxLen characters
Strings(maxLen) == UNION {[1..n -> Chars] : n \in 0..maxLen}

----------------------------------------------------------------------------
(* The ID normalizer as a state machine *)

InitIdsIdle == value = <<>> /\ idCall = NoCall /\ idOut = Null
InitNodesIdle == root = Null /\ nodeCall = NoCall /\ nodeOut = Null
InitStylesIdle == styleNode = Null /\ styleCall = NoCall /\ styleOut = Null
InitDiffIdle == diffDoc = Null /\ diffCall = NoCall /\ diffOut = Null
InitAuditIdle ==
    auditStats = Null /\ auditStyles = 0 /\ auditCall = NoCall /\ auditOut = Null
InitCmdIdle ==
    /\ cmdInput = Null /\ cmdSteps = <<>> /\ cmdLog = <<>> /\ cmdStatus = "idle"
    /\ cmdExported = 0
InitCommentsIdle ==
    commentList = <<>> /\ commentCall = NoCall /\ commentOut = Null
InitExportIdle == exportArgs = Null /\ exportCall = NoCall /\ exportOut = Null
InitAuthIdle ==
    /\ authInput = Null /\ configFile = Null /\ profileFile = Null
    /\ authPc = "idle" /\ authLog = <<>>

InitIds ==
    /\ value \in Strings(MaxLen)
    /\ idCall = NoCall
    /\ idOut = Null
    /\ InitNodesIdle
    /\ InitStylesIdle
    /\ InitDiffIdle
    /\ InitAuditIdle
    /\ InitCmdIdle
    /\ InitCommentsIdle
    /\ InitExportIdle
    /\ InitAuthIdle

NormalizeNodeId ==
    /\ idCall = NoCall
    /\ idCall' = [fn |-> "normalizeNodeId"]
    /\ idOut' = normalizeNodeId(value)
    /\ UNCHANGED <<value, nodeVars, styleVars, diffVars, auditVars, cmdVars, commentVars, exportVars, authVars>>

ParseNodeIdsCsv ==
    /\ idCall = NoCall
    /\ idCall' = [fn |-> "parseNodeIdsCsv"]
    /\ idOut' = parseNodeIdsCsv(value)
    /\ UNCHANGED <<value, nodeVars, styleVars, diffVars, auditVars, cmdVars, commentVars, exportVars, authVars>>

NextIds == NormalizeNodeId \/ ParseNodeIdsCsv

SpecIds == InitIds /\ [][NextIds]_vars

----------------------------------------------------------------------------
(* C9, C10 *)

\* the spellings of the ID s: every way of writing each of its separators as
\* a dash or as a colon
SeparatorPositions(s) == {i \in 1..Len(s) : s[i] \in {"-", ":"}}
Flip(c) == IF c = "-" THEN ":" ELSE "-"
Spellings(s) ==
    {[i \in 1..Len(s) |-> IF i \in F THEN Flip(s[i]) ELSE s[i]] :
        F \in SUBSET SeparatorPositions(s)}

\* C9: normalizeNodeId is idempotent, and the dash form and the colon form of
\* the same ID normalize to the same value, which contains no dash.
Thm_C9 ==
    idCall.fn = "normalizeNodeId" =>
        /\ normalizeNodeId(idOut) = idOut
        /\ \A i \in 1..Len(idOut) : idOut[i] # "-"
        /\ \A t \in Spellings(value) : normalizeNodeId(t) = idOut

\* a padded ID with two dashes has been normalized
Wit_C9 ==
    /\ idCall.fn = "normalizeNodeId"
    /\ value = <<" ", "1", "-", "2", "-">>
    /\ idOut = <<"1", ":", "2", ":">>

CommaPositions(s) == {i \in 1..Len(s) : s[i] = ","}

\* the k-th comma-separated entry of s, k in 1..(number of commas + 1)
EntryStart(s, k) ==
    IF k = 1 THEN 1
    ELSE 1 + CHOOSE i \in CommaPositions(s) :
                 Cardinality({j \in CommaPositions(s) : j <= i}) = k - 1
EntryEnd(s, k) ==
    IF k = Cardinality(CommaPositions(s)) + 1 THEN Len(s)
    ELSE (CHOOSE i \in CommaPositions(s) :
              Cardinality({j \in CommaPositions(s) : j <= i}) = k) - 1
Entry(s, k) == SubSeq(s, EntryStart(s, k), EntryEnd(s, k))

\* the entries that are non-empty after trimming
KeptEntries(s) ==
    {k \in 1..(Cardinality(CommaPositions(s)) + 1) :
        \E i \in EntryStart(s, k)..EntryEnd(s, k) : s[i] \notin Whitespace}

\* C10: parseNodeIdsCsv returns the normalized entries that are non-empty
\* after trimming, in input order, keeping repeated IDs.
Thm_C10 ==
    idCall.fn = "parseNodeIdsCsv" =>
        /\ Len(idOut) = Cardinality(KeptEntries(value))
        /\ \A k \in KeptEntries(value) :
               idOut[Cardinality({j \in KeptEntries(value) : j <= k})]
                   = normalizeNodeId(Entry(value, k))

\* an empty entry was dropped and a repeated ID was kept twice
Wit_C10 ==
    /\ idCall.fn = "parseNodeIdsCsv"
    /\ value = <<"1", ",", ",", " ", "1">>
    /\ idOut = <<<<"1">>, <<"1">>>>

----------------------------------------------------------------------------
(* Node graphs: the FigmaNode of src/src/api.ts *)

\* the IDs carried by nodes: "1:1", its dash form "1-1", "1:2", "2:1"
RawNodeIds ==
    {<<"1", ":", "1">>, <<"1", "-", "1">>, <<"1", ":", "2">>, <<"2", ":", "1">>}

\* the IDs asked for: a padded dash form, plain forms, and one no node carries
TargetIds ==
    {<<" ", "1", "-", "1">>, <<"1", ":", "2">>, <<"2", "-", "1">>,
     <<"2", ":", "2">>}

\* TEXT nodes carry no `children` key; CANVAS and FRAME nodes carry an array
NodeTypes == {"CANVAS", "FRAME", "TEXT"}

RECURSIVE IsAncestorOrSelf(_, _, _)
IsAncestorOrSelf(par, a, i) ==
    i = a \/ (i > 1 /\ IsAncestorOrSelf(par, a, par[i]))

\* the shapes of the trees of n nodes, the nodes numbered in pre-order:
\* par[i] is the parent of node i, 0 for the root
Shapes(n) ==
    {par \in [1..n -> 0..(n - 1)] :
        /\ par[1] = 0
        /\ \A i \in 2..n : par[i] \in 1..(i - 1)
                           /\ IsAncestorOrSelf(par, par[i], i - 1)}

RECURSIVE SortedSeq(_)
SortedSeq(S) ==
    IF S = {} THEN <<>>
    ELSE LET m == CHOOSE x \in S : \A y \in S : x <= y
         IN  <<m>> \o SortedSeq(S \ {m})

\* the node numbered i of the tree of shape par; its name is its number, so
\* that the nodes of one tree have distinct names
RECURSIVE MakeNode(_, _, _, _)
MakeNode(par, ids, types, i) ==
    LET kids == SortedSeq({j \in DOMAIN par : par[j] = i})
    IN  [id |-> ids[i],
         name |-> i,
         type |-> types[i],
         children |->
             IF types[i] = "TEXT" THEN Undefined
             ELSE Arr([k \in 1..Len(kids) |-> MakeNode(par, ids, types, kids[k])])]

\* a TEXT node has no children
WellTyped(par, types) ==
    \A i \in DOMAIN par : types[i] = "TEXT" => \A j \in DOMAIN par : par[j] # i

\* root is a node graph of at most maxNodes nodes
IsFigmaNode(rootNode, maxNodes) ==
    \E n \in 1..maxNodes :
        \E par \in Shapes(n) :
            \E types \in {t \in [1..n -> NodeTypes] : WellTyped(par, t)} :
                \E ids \in [1..n -> RawNodeIds] :
                    rootNode = MakeNode(par, ids, types, 1)

----------------------------------------------------------------------------
(* Tree walker and tree projector: src/src/utils/nodes.ts *)

RECURSIVE walk(_, _, _, _, _), walkChildren(_, _, _, _, _, _)

\* for (const child of node.children) { ...; if (result) return result; }
\* slipped so that a later match replaces an earlier one
walkChildren_LastMatch(items, k, ancestors, parent, page, targetId) ==
    IF k > Len(items) THEN Null
    ELSE LET rest == walkChildren(items, k + 1, ancestors, parent, page, targetId)
         IN  IF rest # Null THEN rest
             ELSE walk(items[k], ancestors, parent, page, targetId)

\* the loop over node.children from the k-th child on
walkChildren(items, k, ancestors, parent, page, targetId) ==
    IF k > Len(items) THEN Null
    ELSE LET result == walk(items[k], ancestors, parent, page, targetId)
         IN  IF result # Null THEN result
             ELSE walkChildren(items, k + 1, ancestors, parent, page, targetId)

\* the page is taken over from the parent even on a CANVAS node
currentPage_Inherited(node, page) == page

\* const currentPage = node.type === 'CANVAS' ? node : page;
currentPage(node, page) == IF node.type = "CANVAS" THEN node ELSE page

\* the chain handed down grows at the wrong end
childAncestors_Prepend(ancestors, node) == <<node>> \o ancestors

\* [...ancestors, node]
childAncestors(ancestors, node) == Append(ancestors, node)

walk(node, ancestors, parent, page, targetId) ==
    IF normalizeNodeId(node.id) = targetId
    THEN [node |-> node, parent |-> parent, ancestors |-> ancestors,
          page |-> currentPage(node, page)]
    ELSE IF ~IsArray(node.children) THEN Null
    ELSE walkChildren(node.children.items, 1, childAncestors(ancestors, node),
                      node, currentPage(node, page), targetId)

findNodePath(rootNode, nodeId) ==
    walk(rootNode, <<>>, Undefined, Undefined, normalizeNodeId(nodeId))

\* Map.prototype.set
MapSet(m, k, v) == [x \in (DOMAIN m) \cup {k} |-> IF x = k THEN v ELSE m[x]]

RECURSIVE walkParents(_, _, _), walkParentsChildren(_, _, _, _)

\* for (const child of node.children) walk(child, normalizedId);
walkParentsChildren(items, k, parentId, parents) ==
    IF k > Len(items) THEN parents
    ELSE walkParentsChildren(items, k + 1, parentId,
                             walkParents(items[k], parentId, parents))

\* walk(child, node.id): the parent's ID is handed down as the node spells it
walkParents_RawParent(node, parentId, parents) ==
    LET normalizedId == normalizeNodeId(node.id)
        set == MapSet(parents, normalizedId, parentId)
    IN  IF ~IsArray(node.children) THEN set
        ELSE walkParentsChildren(node.children.items, 1, Str(node.id), set)

\* the walk of buildParentMap; `parents` is the map filled so far
walkParents(node, parentId, parents) ==
    LET normalizedId == normalizeNodeId(node.id)
        set == MapSet(parents, normalizedId, parentId)
    IN  IF ~IsArray(node.children) THEN set
        ELSE walkParentsChildren(node.children.items, 1, Str(normalizedId), set)

\* the root is entered as its own parent
buildParentMap_RootOwnParent(rootNode) ==
    walkParents(rootNode, Str(normalizeNodeId(rootNode.id)), <<>>)

buildParentMap(rootNode) == walkParents(rootNode, Undefined, <<>>)

RECURSIVE toTree(_, _)

\* the test is made on depth, not on nextDepth: one level too many
toTree_OneLevelMore(node, depth) ==
    LET nextDepth == depth - 1
        children ==
            IF depth > 0 /\ IsArray(node.children)
            THEN [k \in 1..Len(node.children.items) |->
                      toTree(node.children.items[k], nextDepth)]
            ELSE <<>>
    IN  [id |-> normalizeNodeId(node.id), name |-> node.name,
         type |-> node.type, children |-> children]

toTree(node, depth) ==
    LET nextDepth == depth - 1
        children ==
            IF nextDepth > 0 /\ IsArray(node.children)
            THEN [k \in 1..Len(node.children.items) |->
                      toTree(node.children.items[k], nextDepth)]
            ELSE <<>>
    IN  [id |-> normalizeNodeId(node.id), name |-> node.name,
         type |-> node.type, children |-> children]

RECURSIVE buildChildren(_, _)

\* the children are projected with the depth they were reached with
buildChildren_DepthKept(node, depth) ==
    IF depth <= 0 \/ ~IsArray(node.children) THEN <<>>
    ELSE [k \in 1..Len(node.children.items) |->
              LET child == node.children.items[k]
              IN  [id |-> normalizeNodeId(child.id), name |-> child.name,
                   type |-> child.type,
                   children |-> buildChildren(child, depth)]]

\* the child projection of the inspect command
buildChildren(node, depth) ==
    IF depth <= 0 \/ ~IsArray(node.children) THEN <<>>
    ELSE [k \in 1..Len(node.children.items) |->
              LET child == node.children.items[k]
              IN  [id |-> normalizeNodeId(child.id), name |-> child.name,
                   type |-> child.type,
                   children |-> buildChildren(child, depth - 1)]]

----------------------------------------------------------------------------
(* The tree utilities as a state machine *)

InitNodes ==
    /\ IsFigmaNode(root, MaxNodes)
    /\ nodeCall = NoCall
    /\ nodeOut = Null
    /\ InitIdsIdle
    /\ InitStylesIdle
    /\ InitDiffIdle
    /\ InitAuditIdle
    /\ InitCmdIdle
    /\ InitCommentsIdle
    /\ InitExportIdle
    /\ InitAuthIdle

FindNodePath ==
    /\ nodeCall = NoCall
    /\ \E nodeId \in TargetIds :
           /\ nodeCall' = [fn |-> "findNodePath", nodeId |-> nodeId]
           /\ nodeOut' = findNodePath(root, nodeId)
    /\ UNCHANGED <<root, idVars, styleVars, diffVars, auditVars, cmdVars, commentVars, exportVars, authVars>>

BuildParentMap ==
    /\ nodeCall = NoCall
    /\ nodeCall' = [fn |-> "buildParentMap"]
    /\ nodeOut' = buildParentMap(root)
    /\ UNCHANGED <<root, idVars, styleVars, diffVars, auditVars, cmdVars, commentVars, exportVars, authVars>>

ToTree ==
    /\ nodeCall = NoCall
    /\ \E depth \in 1..MaxDepth :
           /\ nodeCall' = [fn |-> "toTree", depth |-> depth]
           /\ nodeOut' = toTree(root, depth)
    /\ UNCHANGED <<root, idVars, styleVars, diffVars, auditVars, cmdVars, commentVars, exportVars, authVars>>

BuildChildren ==
    /\ nodeCall = NoCall
    /\ \E depth \in 0..MaxDepth :
           /\ nodeCall' = [fn |-> "buildChildren", depth |-> depth]
           /\ nodeOut' = buildChildren(root, depth)
    /\ UNCHANGED <<root, idVars, styleVars, diffVars, auditVars, cmdVars, commentVars, exportVars, authVars>>

NextNodes == FindNodePath \/ BuildParentMap \/ ToTree \/ BuildChildren

SpecNodes == InitNodes /\ [][NextNodes]_vars

----------------------------------------------------------------------------
(* Positions: a node of a graph is addressed by the child indices that lead
   to it from the root; <<>> addresses the root.  Pre-order is the
   lexicographic order of positions, a prefix coming first. *)

ChildrenOf(node) == IF IsArray(node.children) THEN node.children.items ELSE <<>>

RECURSIVE Positions(_)
Positions(node) ==
    {<<>>} \cup
    UNION {{<<k>> \o pos : pos \in Positions(ChildrenOf(node)[k])}
           : k \in 1..Len(ChildrenOf(node))}

RECURSIVE NodeAt(_, _)
NodeAt(node, pos) ==
    IF pos = <<>> THEN node ELSE NodeAt(ChildrenOf(node)[Head(pos)], Tail(pos))

Prefix(pos, k) == SubSeq(pos, 1, k)

IsProperPrefix(p, q) == Len(p) < Len(q) /\ Prefix(q, Len(p)) = p

PreOrderBefore(p, q) ==
    \/ IsProperPrefix(p, q)
    \/ \E k \in 1..Len(p) :
           /\ k <= Len(q)
           /\ Prefix(p, k - 1) = Prefix(q, k - 1)
           /\ p[k] < q[k]

NormalizedIdAt(pos) == normalizeNodeId(NodeAt(root, pos).id)

\* node IDs are unique: no two nodes carry the same ID, whichever way the
\* separator is spelled
UniqueIds ==
    \A p, q \in Positions(root) : NormalizedIdAt(p) = NormalizedIdAt(q) => p = q

\* the positions of the nodes that carry the ID asked for
Matches(nodeId) ==
    {p \in Positions(root) : NormalizedIdAt(p) = normalizeNodeId(nodeId)}

FirstMatch(nodeId) ==
    CHOOSE p \in Matches(nodeId) :
        \A q \in Matches(nodeId) : q = p \/ PreOrderBefore(p, q)

\* the nodes from the root down to the parent of the node at pos
AncestorChain(pos) ==
    [k \in 1..Len(pos) |-> NodeAt(root, Prefix(pos, k - 1))]

FoundPath == nodeCall.fn = "findNodePath" /\ nodeOut # Null

----------------------------------------------------------------------------
(* C1, C2, C3 *)

\* C1: in a tree of unique IDs, for a target carried by some node,
\* findNodePath returns that node, the chain of nodes from the root down to
\* its parent as `ancestors`, and the last of them as `parent`; `parent` is
\* absent and `ancestors` is empty exactly when the target is the root.
Thm_C1 ==
    (nodeCall.fn = "findNodePath" /\ UniqueIds) =>
        \A p \in Matches(nodeCall.nodeId) :
            /\ nodeOut # Null
            /\ nodeOut.node = NodeAt(root, p)
            /\ nodeOut.ancestors = AncestorChain(p)
            /\ p # <<>> =>
                   /\ nodeOut.parent = nodeOut.ancestors[Len(nodeOut.ancestors)]
                   /\ nodeOut.parent = NodeAt(root, Prefix(p, Len(p) - 1))
            /\ (nodeOut.parent = Undefined /\ nodeOut.ancestors = <<>>)
                   <=> p = <<>>
            /\ nodeOut.parent = Undefined <=> nodeOut.ancestors = <<>>

\* a grandchild of the root was found in a tree of unique IDs
Wit_C1 ==
    /\ FoundPath
    /\ UniqueIds
    /\ Len(nodeOut.ancestors) = 2
    /\ nodeOut.parent = nodeOut.ancestors[2]
    /\ nodeOut.ancestors[1] = root

\* the root itself was found
Wit_C1_Root ==
    /\ FoundPath
    /\ UniqueIds
    /\ nodeOut.node = root
    /\ nodeOut.parent = Undefined

\* the CANVAS nodes among the nodes at the first n prefixes of pos, n counted
\* from the root: given by the lengths of their positions
CanvasPrefixes(pos, n) ==
    {k \in 0..(n - 1) : NodeAt(root, Prefix(pos, k)).type = "CANVAS"}

Deepest(S) == CHOOSE k \in S : \A j \in S : j <= k

\* the nearest CANVAS among the strict ancestors of the node at pos
NearestCanvasAncestor(pos) ==
    IF CanvasPrefixes(pos, Len(pos)) = {} THEN Undefined
    ELSE NodeAt(root, Prefix(pos, Deepest(CanvasPrefixes(pos, Len(pos)))))

\* the nearest CANVAS among the node at pos and its ancestors
NearestCanvasOrSelf(pos) ==
    IF CanvasPrefixes(pos, Len(pos) + 1) = {} THEN Undefined
    ELSE NodeAt(root, Prefix(pos, Deepest(CanvasPrefixes(pos, Len(pos) + 1))))

\* C2 as stated: `page` is the nearest CANVAS-typed ancestor of the target,
\* and absent when no ancestor of the target is a CANVAS.
Orig_C2 ==
    FoundPath => nodeOut.page = NearestCanvasAncestor(FirstMatch(nodeCall.nodeId))

\* C2 amended: `page` is the target itself when the target is a CANVAS node,
\* otherwise its nearest CANVAS-typed ancestor, and absent when neither the
\* target nor any of its ancestors is a CANVAS.
Thm_C2 ==
    FoundPath => nodeOut.page = NearestCanvasOrSelf(FirstMatch(nodeCall.nodeId))

\* a node under two nested CANVAS nodes was found: the page is the inner one
Wit_C2 ==
    /\ FoundPath
    /\ Len(nodeOut.ancestors) = 2
    /\ nodeOut.ancestors[1].type = "CANVAS"
    /\ nodeOut.ancestors[2].type = "CANVAS"
    /\ nodeOut.node.type # "CANVAS"
    /\ nodeOut.page = nodeOut.ancestors[2]

\* C3: findNodePath returns null exactly when no node carries the normalized
\* target ID; when several do, it returns the first of them in pre-order.
Thm_C3 ==
    nodeCall.fn = "findNodePath" =>
        /\ nodeOut = Null <=> Matches(nodeCall.nodeId) = {}
        /\ nodeOut # Null =>
               nodeOut.node = NodeAt(root, FirstMatch(nodeCall.nodeId))

\* two nodes carry the target ID, neither above the other, and the earlier
\* one was returned
Wit_C3 ==
    /\ FoundPath
    /\ \E p, q \in Matches(nodeCall.nodeId) :
           /\ PreOrderBefore(p, q)
           /\ ~IsProperPrefix(p, q)
           /\ nodeOut.node = NodeAt(root, p)

\* no node carries the target ID and null was returned
Wit_C3_NotFound ==
    /\ nodeCall.fn = "findNodePath"
    /\ nodeOut = Null
    /\ Cardinality(Positions(root)) = MaxNodes

----------------------------------------------------------------------------
(* C7, C8 *)

RECURSIVE TreePositions(_)
TreePositions(tree) ==
    {<<>>} \cup
    UNION {{<<k>> \o pos : pos \in TreePositions(tree.children[k])}
           : k \in 1..Len(tree.children)}

RECURSIVE TreeNodeAt(_, _)
TreeNodeAt(tree, pos) ==
    IF pos = <<>> THEN tree ELSE TreeNodeAt(tree.children[Head(pos)], Tail(pos))

\* C7: for depth d >= 1, toTree(root, d) holds exactly the nodes at distance
\* less than d from the root, at their places in the child order, each with
\* its name, its type and its normalized id; a node at distance d - 1 has no
\* children, and depth 1 yields the root alone.
Thm_C7 ==
    (nodeCall.fn = "toTree" /\ nodeCall.depth >= 1) =>
        /\ TreePositions(nodeOut)
               = {p \in Positions(root) : Len(p) < nodeCall.depth}
        /\ \A p \in TreePositions(nodeOut) :
               /\ TreeNodeAt(nodeOut, p).name = NodeAt(root, p).name
               /\ TreeNodeAt(nodeOut, p).type = NodeAt(root, p).type
               /\ TreeNodeAt(nodeOut, p).id = normalizeNodeId(NodeAt(root, p).id)
               /\ Len(p) = nodeCall.depth - 1
                      => TreeNodeAt(nodeOut, p).children = <<>>
        /\ nodeCall.depth = 1 => nodeOut.children = <<>>

\* a tree three levels deep was projected to depth 2: the child is kept with
\* its dash ID normalized, the grandchild is cut off
Wit_C7 ==
    /\ nodeCall.fn = "toTree"
    /\ nodeCall.depth = 2
    /\ <<1, 1>> \in Positions(root)
    /\ NodeAt(root, <<1>>).id = <<"1", "-", "1">>
    /\ Len(nodeOut.children) = 1
    /\ nodeOut.children[1].id = <<"1", ":", "1">>
    /\ nodeOut.children[1].children = <<>>

\* C8: in a tree of unique IDs, buildParentMap(root) has exactly one key per
\* node, its normalized ID; the root's key maps to an absent parent and every
\* other node's key maps to the normalized ID of its direct parent.
Thm_C8 ==
    (nodeCall.fn = "buildParentMap" /\ UniqueIds) =>
        /\ DOMAIN nodeOut = {NormalizedIdAt(p) : p \in Positions(root)}
        /\ Cardinality(DOMAIN nodeOut) = Cardinality(Positions(root))
        /\ nodeOut[NormalizedIdAt(<<>>)] = Undefined
        /\ \A p \in Positions(root) \ {<<>>} :
               nodeOut[NormalizedIdAt(p)]
                   = Str(NormalizedIdAt(Prefix(p, Len(p) - 1)))

\* the map of a three-level tree of unique IDs whose middle node spells its
\* ID with a dash
Wit_C8 ==
    /\ nodeCall.fn = "buildParentMap"
    /\ UniqueIds
    /\ <<1, 1>> \in Positions(root)
    /\ NodeAt(root, <<1>>).id = <<"1", "-", "1">>
    /\ nodeOut[NormalizedIdAt(<<1, 1>>)] = Str(<<"1", ":", "1">>)

----------------------------------------------------------------------------
(* C25, C26 *)

LastMatch(nodeId) ==
    CHOOSE p \in Matches(nodeId) :
        \A q \in Matches(nodeId) : q = p \/ PreOrderBefore(q, p)

ParentAt(pos) ==
    IF pos = <<>> THEN Undefined ELSE NodeAt(root, Prefix(pos, Len(pos) - 1))

\* a parent as the map stores it: its normalized ID, or absent
ParentId(parent) ==
    IF parent = Undefined THEN Undefined ELSE Str(normalizeNodeId(parent.id))

\* C25: for every node ID of the tree, buildParentMap(root).get(id) is the
\* normalized ID of the parent of the last node in pre-order that carries the
\* ID, and findNodePath(root, id).parent is the parent of the first; when
\* node IDs are unique the two agree, both absent for the root.
Thm_C25 ==
    nodeCall.fn = "buildParentMap" =>
        \A p \in Positions(root) :
            LET id == NormalizedIdAt(p)
                path == findNodePath(root, id)
            IN  /\ path # Null
                /\ id \in DOMAIN nodeOut
                /\ UniqueIds => /\ nodeOut[id] = ParentId(path.parent)
                                /\ p = <<>> => /\ nodeOut[id] = Undefined
                                               /\ path.parent = Undefined
                /\ nodeOut[id] = ParentId(ParentAt(LastMatch(id)))
                /\ path.parent = ParentAt(FirstMatch(id))

\* a three-level tree of unique IDs: the map and the path agree on the
\* grandchild's parent, whose ID is spelled with a dash
Wit_C25 ==
    /\ nodeCall.fn = "buildParentMap"
    /\ UniqueIds
    /\ <<1, 1>> \in Positions(root)
    /\ NodeAt(root, <<1>>).id = <<"1", "-", "1">>
    /\ nodeOut[NormalizedIdAt(<<1, 1>>)] = Str(<<"1", ":", "1">>)
    /\ findNodePath(root, NormalizedIdAt(<<1, 1>>)).parent = NodeAt(root, <<1>>)
    /\ nodeOut[NormalizedIdAt(<<>>)] = Undefined

\* a child and its own child carry the same ID: the map holds the child as
\* the ID's parent, findNodePath reports the root
Wit_C25_Duplicate ==
    /\ nodeCall.fn = "buildParentMap"
    /\ <<1, 1>> \in Positions(root)
    /\ NormalizedIdAt(<<1>>) = NormalizedIdAt(<<1, 1>>)
    /\ NormalizedIdAt(<<>>) # NormalizedIdAt(<<1>>)
    /\ nodeOut[NormalizedIdAt(<<1>>)] = Str(NormalizedIdAt(<<1>>))
    /\ findNodePath(root, NormalizedIdAt(<<1>>)).parent = root

\* C26: for every node and every depth d >= 0, buildChildren(node, d) is the
\* children of toTree(node, d + 1).
Thm_C26 ==
    nodeCall.fn = "buildChildren" =>
        nodeOut = toTree(root, nodeCall.depth + 1).children

\* a three-level tree projected with depth 1: the child is listed without
\* the grandchild, as in toTree with depth 2
Wit_C26 ==
    /\ nodeCall.fn = "buildChildren"
    /\ nodeCall.depth = 1
    /\ <<1, 1>> \in Positions(root)
    /\ Len(nodeOut) = 1
    /\ nodeOut[1].id = NormalizedIdAt(<<1>>)
    /\ nodeOut[1].children = <<>>
    /\ nodeOut = toTree(root, 2).children

----------------------------------------------------------------------------
(* Style deriver: src/src/commands/styles.ts
   Lengths are whole numbers of thousandths of a pixel, so that bounding
   boxes with fractional coordinates and the rounding to two decimals are
   both represented: 10004 is 10.004px and rounds to 10000, 10.00px. *)

\* Number.POSITIVE_INFINITY
PositiveInfinity == [kind |-> "number", infinite |-> TRUE]

IsFinite(v) == v # PositiveInfinity

\* Math.min on a running minimum and a finite number
MathMin(a, n) == IF a = PositiveInfinity \/ n < a.val THEN Num(n) ELSE a

\* Math.round(v * 100) / 100, v in thousandths
RoundToHundredths(n) == ((n + 5) \div 10) * 10

toNumber(v) == IF IsNumber(v) THEN v ELSE Undefined

\* every edge must be declared for the padding to count as explicit
anyExplicit_All(explicit) ==
    /\ IsNumber(explicit.top)
    /\ IsNumber(explicit.right)
    /\ IsNumber(explicit.bottom)
    /\ IsNumber(explicit.left)

\* typeof explicit.top === 'number' || ... || typeof explicit.left === 'number'
anyExplicit(explicit) ==
    \/ IsNumber(explicit.top)
    \/ IsNumber(explicit.right)
    \/ IsNumber(explicit.bottom)
    \/ IsNumber(explicit.left)

\* the right gap is measured from the parent's width alone
gaps_RightFromWidth(parentBounds, bounds) ==
    [top |-> bounds.y - parentBounds.y,
     left |-> bounds.x - parentBounds.x,
     right |-> parentBounds.width - (bounds.x + bounds.width),
     bottom |-> (parentBounds.y + parentBounds.height) - (bounds.y + bounds.height)]

\* the four gaps of one child to its parent's bounds
gaps(parentBounds, bounds) ==
    [top |-> bounds.y - parentBounds.y,
     left |-> bounds.x - parentBounds.x,
     right |-> (parentBounds.x + parentBounds.width) - (bounds.x + bounds.width),
     bottom |-> (parentBounds.y + parentBounds.height) - (bounds.y + bounds.height)]

\* node.children.filter((child) => Boolean(child.absoluteBoundingBox))
RECURSIVE filterBounded(_)
filterBounded(children) ==
    IF children = <<>> THEN <<>>
    ELSE IF Head(children).absoluteBoundingBox # Undefined
         THEN <<Head(children)>> \o filterBounded(Tail(children))
         ELSE filterBounded(Tail(children))

\* for (const child of boundedChildren) { ... Math.min ... }, from the k-th
\* child on; mins holds minTop, minRight, minBottom, minLeft
RECURSIVE minGaps(_, _, _, _)
minGaps(parentBounds, boundedChildren, k, mins) ==
    IF k > Len(boundedChildren) THEN mins
    ELSE LET g == gaps(parentBounds, boundedChildren[k].absoluteBoundingBox)
         IN  minGaps(parentBounds, boundedChildren, k + 1,
                     [top |-> MathMin(mins.top, g.top),
                      right |-> MathMin(mins.right, g.right),
                      bottom |-> MathMin(mins.bottom, g.bottom),
                      left |-> MathMin(mins.left, g.left)])

\* only the non-finite minimum is refused: a negative gap passes
someInvalid_FiniteOnly(mins) ==
    \E e \in {"top", "right", "bottom", "left"} : ~IsFinite(mins[e])

\* values.some((value) => !Number.isFinite(value) || value < 0)
someInvalid(mins) ==
    \E e \in {"top", "right", "bottom", "left"} :
        ~IsFinite(mins[e]) \/ mins[e].val < 0

NoPadding ==
    [top |-> Undefined, right |-> Undefined, bottom |-> Undefined,
     left |-> Undefined, source |-> "none"]

inferPaddingFromChildren(node) ==
    LET explicit == [top |-> toNumber(node.paddingTop),
                     right |-> toNumber(node.paddingRight),
                     bottom |-> toNumber(node.paddingBottom),
                     left |-> toNumber(node.paddingLeft)]
    IN  IF anyExplicit(explicit)
        THEN [top |-> explicit.top, right |-> explicit.right,
              bottom |-> explicit.bottom, left |-> explicit.left,
              source |-> "explicit"]
        ELSE IF \/ node.absoluteBoundingBox = Undefined
                \/ ~IsArray(node.children)
                \/ Len(node.children.items) = 0
        THEN NoPadding
        ELSE LET boundedChildren == filterBounded(node.children.items)
             IN  IF Len(boundedChildren) = 0 THEN NoPadding
                 ELSE LET mins == minGaps(node.absoluteBoundingBox, boundedChildren, 1,
                                      [top |-> PositiveInfinity,
                                       right |-> PositiveInfinity,
                                       bottom |-> PositiveInfinity,
                                       left |-> PositiveInfinity])
                      IN  IF someInvalid(mins) THEN NoPadding
                          ELSE [top |-> Num(RoundToHundredths(mins.top.val)),
                                right |-> Num(RoundToHundredths(mins.right.val)),
                                bottom |-> Num(RoundToHundredths(mins.bottom.val)),
                                left |-> Num(RoundToHundredths(mins.left.val)),
                                source |-> "inferred"]

\* `${n}px`
Px(n) == <<n, "px">>

\* padding.top ?? 0
OrZero(v) == IF v = Undefined THEN 0 ELSE v.val

\* `${top ?? 0}px ${right ?? 0}px ${bottom ?? 0}px ${left ?? 0}px`: the four
\* lengths, in this order
cssPadding(padding) ==
    <<Px(OrZero(padding.top)), Px(OrZero(padding.right)),
      Px(OrZero(padding.bottom)), Px(OrZero(padding.left))>>

\* typeof padding.top === 'number' || ... || typeof padding.left === 'number'
anyNumericEdge(padding) ==
    \/ IsNumber(padding.top)
    \/ IsNumber(padding.right)
    \/ IsNumber(padding.bottom)
    \/ IsNumber(padding.left)

\* The nodes of this model carry no fills, strokes, effects, typography
\* block, layoutMode, itemSpacing, cornerRadius or opacity, so that of the
\* CSS properties only width, height and padding can be emitted.
buildStyleDetails(node) ==
    LET padding == inferPaddingFromChildren(node)
        css0 == <<>>
        css1 == IF node.absoluteBoundingBox # Undefined
                THEN MapSet(MapSet(css0, "width", Px(node.absoluteBoundingBox.width)),
                            "height", Px(node.absoluteBoundingBox.height))
                ELSE css0
        css2 == IF anyNumericEdge(padding)
                THEN MapSet(css1, "padding", cssPadding(padding))
                ELSE css1
    IN  [css |-> css2,
         layout |-> [padding |-> padding],
         absoluteBoundingBox |-> node.absoluteBoundingBox]

----------------------------------------------------------------------------
(* The style deriver as a state machine *)

PaddingTops == {Undefined, Str("auto"), Num(0)}
PaddingRights == {Undefined, Num(16000)}
PaddingBottoms == {Undefined, Num(12000)}
PaddingLefts == {Undefined, Num(16000)}

ParentBoxes ==
    {[x |-> o, y |-> o, width |-> 100000, height |-> 100000] : o \in {0, 5000}}

ChildBoxes ==
    {[x |-> x, y |-> y, width |-> w, height |-> 85000] :
        x \in {0, 10000, 10004}, y \in {10000, 20000}, w \in {80000, 95000}}

\* the lists of at most maxChildren children, with or without bounds
ChildLists(maxChildren) ==
    UNION {[1..n -> {[absoluteBoundingBox |-> b] : b \in ChildBoxes \cup {Undefined}}]
           : n \in 0..maxChildren}

StyleNodes(maxChildren) ==
    {[paddingTop |-> pt, paddingRight |-> pr, paddingBottom |-> pb,
      paddingLeft |-> pl, absoluteBoundingBox |-> bb, children |-> ch] :
        pt \in PaddingTops, pr \in PaddingRights, pb \in PaddingBottoms,
        pl \in PaddingLefts, bb \in ParentBoxes \cup {Undefined},
        ch \in {Arr(c) : c \in ChildLists(maxChildren)} \cup {Undefined}}

InitStyles ==
    /\ styleNode \in StyleNodes(MaxChildren)
    /\ styleCall = NoCall
    /\ styleOut = Null
    /\ InitIdsIdle
    /\ InitNodesIdle
    /\ InitDiffIdle
    /\ InitAuditIdle
    /\ InitCmdIdle
    /\ InitCommentsIdle
    /\ InitExportIdle
    /\ InitAuthIdle

InferPaddingFromChildren ==
    /\ styleCall = NoCall
    /\ styleCall' = [fn |-> "inferPaddingFromChildren"]
    /\ styleOut' = inferPaddingFromChildren(styleNode)
    /\ UNCHANGED <<styleNode, idVars, nodeVars, diffVars, auditVars, cmdVars, commentVars, exportVars, authVars>>

BuildStyleDetails ==
    /\ styleCall = NoCall
    /\ styleCall' = [fn |-> "buildStyleDetails"]
    /\ styleOut' = buildStyleDetails(styleNode)
    /\ UNCHANGED <<styleNode, idVars, nodeVars, diffVars, auditVars, cmdVars, commentVars, exportVars, authVars>>

NextStyles == InferPaddingFromChildren \/ BuildStyleDetails

SpecStyles == InitStyles /\ [][NextStyles]_vars

----------------------------------------------------------------------------
(* C4, C5, C6 *)

Edges == {"top", "right", "bottom", "left"}

\* the padding computed by the call made
PaddingResult ==
    IF styleCall.fn = "buildStyleDetails" THEN styleOut.layout.padding ELSE styleOut

StyleCalled == styleCall.fn # "none"

DeclaredField(e) ==
    CASE e = "top" -> styleNode.paddingTop
      [] e = "right" -> styleNode.paddingRight
      [] e = "bottom" -> styleNode.paddingBottom
      [] e = "left" -> styleNode.paddingLeft

NoneDeclared == \A e \in Edges : ~IsNumber(DeclaredField(e))

HasBounds == styleNode.absoluteBoundingBox # Undefined

\* the bounding boxes of the children that have one
ChildBounds ==
    IF ~IsArray(styleNode.children) THEN {}
    ELSE {styleNode.children.items[k].absoluteBoundingBox :
              k \in 1..Len(styleNode.children.items)} \ {Undefined}

\* the gap of the child bounds b to the parent's bounds on the side e
GapOn(e, b) ==
    LET pb == styleNode.absoluteBoundingBox
    IN  CASE e = "top" -> b.y - pb.y
          [] e = "left" -> b.x - pb.x
          [] e = "right" -> (pb.x + pb.width) - (b.x + b.width)
          [] e = "bottom" -> (pb.y + pb.height) - (b.y + b.height)

MinGapOn(e) ==
    CHOOSE g \in {GapOn(e, b) : b \in ChildBounds} :
        \A b \in ChildBounds : g <= GapOn(e, b)

InferenceApplies ==
    /\ NoneDeclared
    /\ HasBounds
    /\ ChildBounds # {}
    /\ \A e \in Edges : MinGapOn(e) >= 0

\* r is m rounded to two decimal places: the hundredth nearest to m
IsRoundedToHundredths(r, m) ==
    /\ r % 10 = 0
    /\ r - m <= 5
    /\ m - r <= 5

\* C4 as stated: when inference applies the result is tagged `inferred` and
\* each edge equals the minimum gap on its side over the bounded children.
Orig_C4 ==
    (StyleCalled /\ InferenceApplies) =>
        /\ PaddingResult.source = "inferred"
        /\ \A e \in Edges : PaddingResult[e] = Num(MinGapOn(e))

\* C4 amended: when inference applies the result is tagged `inferred` and
\* each edge equals the minimum gap on its side over the bounded children,
\* rounded to two decimal places.
Thm_C4 ==
    (StyleCalled /\ InferenceApplies) =>
        /\ PaddingResult.source = "inferred"
        /\ \A e \in Edges :
               /\ IsNumber(PaddingResult[e])
               /\ IsRoundedToHundredths(PaddingResult[e].val, MinGapOn(e))

\* padding was inferred for a parent at (5,5) with one child without bounds
\* and one child at x = 10.004: the left edge is 5.004 rounded, 5.00
Wit_C4 ==
    /\ styleCall.fn = "buildStyleDetails"
    /\ InferenceApplies
    /\ Len(styleNode.children.items) = 2
    /\ styleNode.children.items[1].absoluteBoundingBox = Undefined
    /\ MinGapOn("left") = 5004
    /\ PaddingResult.left = Num(5000)
    /\ PaddingResult.source = "inferred"

\* C5: when some padding field is a number the result is tagged `explicit`
\* and carries exactly the declared edges, whatever the bounds and children
\* are, and the CSS padding has 0 for each undeclared edge.
Thm_C5 ==
    (StyleCalled /\ ~NoneDeclared) =>
        /\ PaddingResult.source = "explicit"
        /\ \A e \in Edges :
               PaddingResult[e] =
                   IF IsNumber(DeclaredField(e)) THEN DeclaredField(e) ELSE Undefined
        /\ styleCall.fn = "buildStyleDetails" =>
               /\ "padding" \in DOMAIN styleOut.css
               /\ styleOut.css["padding"] =
                      <<Px(IF IsNumber(styleNode.paddingTop)
                           THEN styleNode.paddingTop.val ELSE 0),
                        Px(IF IsNumber(styleNode.paddingRight)
                           THEN styleNode.paddingRight.val ELSE 0),
                        Px(IF IsNumber(styleNode.paddingBottom)
                           THEN styleNode.paddingBottom.val ELSE 0),
                        Px(IF IsNumber(styleNode.paddingLeft)
                           THEN styleNode.paddingLeft.val ELSE 0)>>

\* only the right edge is declared, on a node whose children would allow an
\* inference: the result is explicit and the CSS is 0 16 0 0
Wit_C5 ==
    /\ styleCall.fn = "buildStyleDetails"
    /\ styleNode.paddingTop = Str("auto")
    /\ styleNode.paddingRight = Num(16000)
    /\ styleNode.paddingBottom = Undefined
    /\ styleNode.paddingLeft = Undefined
    /\ HasBounds
    /\ ChildBounds # {}
    /\ \A e \in Edges : MinGapOn(e) >= 0
    /\ PaddingResult.source = "explicit"
    /\ styleOut.css["padding"] = <<Px(0), Px(16000), Px(0), Px(0)>>

ChildOverflows ==
    /\ HasBounds
    /\ \E b \in ChildBounds : \E e \in Edges : GapOn(e, b) < 0

\* C6: when no padding field is declared and a bounded child extends beyond
\* the parent's bounds on some side, the result is tagged `none` with no
\* numeric edge, and buildStyleDetails emits no padding property.
Thm_C6 ==
    (StyleCalled /\ NoneDeclared /\ ChildOverflows) =>
        /\ PaddingResult.source = "none"
        /\ \A e \in Edges : PaddingResult[e] = Undefined
        /\ styleCall.fn = "buildStyleDetails" => "padding" \notin DOMAIN styleOut.css

\* one child overflows on the right only, another child lies inside: no
\* padding at all, and the CSS has width and height only
Wit_C6 ==
    /\ styleCall.fn = "buildStyleDetails"
    /\ NoneDeclared
    /\ HasBounds
    /\ Cardinality(ChildBounds) = 2
    /\ \E b \in ChildBounds : \A e \in Edges : GapOn(e, b) >= 0
    /\ \E b \in ChildBounds :
           GapOn("right", b) < 0 /\ \A e \in Edges \ {"right"} : GapOn(e, b) > 0
    /\ PaddingResult.source = "none"
    /\ DOMAIN styleOut.css = {"width", "height"}

----------------------------------------------------------------------------
(* Number and string conversions: src/src/commands/diff.ts *)

Digits == <<"0", "1", "2", "3", "4", "5", "6", "7", "8", "9">>
HexDigits == Digits \o <<"a", "b", "c", "d", "e", "f">>

\* the UTF-16 code units of the characters that occur in the strings sorted
CodeUnits ==
    <<<<"#", 35>>, <<".", 46>>, <<"0", 48>>, <<"1", 49>>, <<"2", 50>>,
      <<"3", 51>>, <<"4", 52>>, <<"5", 53>>, <<"6", 54>>, <<"7", 55>>,
      <<"8", 56>>, <<"9", 57>>, <<"I", 73>>, <<"U", 85>>, <<"a", 97>>,
      <<"b", 98>>, <<"c", 99>>, <<"d", 100>>, <<"e", 101>>, <<"f", 102>>,
      <<"g", 103>>, <<"h", 104>>, <<"i", 105>>, <<"j", 106>>, <<"k", 107>>,
      <<"l", 108>>, <<"m", 109>>, <<"n", 110>>, <<"o", 111>>, <<"p", 112>>,
      <<"q", 113>>, <<"r", 114>>, <<"s", 115>>, <<"t", 116>>, <<"u", 117>>,
      <<"v", 118>>, <<"w", 119>>, <<"x", 120>>, <<"y", 121>>, <<"z", 122>>,
      <<"|", 124>>>>

CodeUnit(c) == (CHOOSE p \in {CodeUnits[i] : i \in 1..Len(CodeUnits)} : p[1] = c)[2]

\* the order Array.prototype.sort() puts strings in without a comparator:
\* by code units, a proper prefix first
RECURSIVE StringLess(_, _)
StringLess(s, t) ==
    IF t = <<>> THEN FALSE
    ELSE IF s = <<>> THEN TRUE
    ELSE IF Head(s) = Head(t) THEN StringLess(Tail(s), Tail(t))
    ELSE CodeUnit(Head(s)) < CodeUnit(Head(t))

SortInsert(sorted, x) ==
    LET k == Cardinality({i \in 1..Len(sorted) : ~StringLess(x, sorted[i])})
    IN  SubSeq(sorted, 1, k) \o <<x>> \o SubSeq(sorted, k + 1, Len(sorted))

\* Array.prototype.sort() on an array of strings
RECURSIVE ArraySort(_)
ArraySort(a) ==
    IF a = <<>> THEN <<>>
    ELSE SortInsert(ArraySort(SubSeq(a, 1, Len(a) - 1)), a[Len(a)])

\* Set.prototype.add on a set kept in insertion order
SetAdd(set, item) ==
    IF \E i \in 1..Len(set) : set[i] = item THEN set ELSE Append(set, item)

\* Number.prototype.toString(16) of a natural number
RECURSIVE ToString16(_)
ToString16(v) ==
    IF v < 16 THEN <<HexDigits[v + 1]>>
    ELSE ToString16(v \div 16) \o <<HexDigits[(v % 16) + 1]>>

\* String.prototype.padStart(2, '0')
PadStart2(s) == IF Len(s) < 2 THEN <<"0">> \o s ELSE s

\* Math.round(n * 255) of a number n >= 0 given in thousandths
Round255(n) == (n * 255 + 500) \div 1000

toByteHex(n) == PadStart2(ToString16(Round255(n)))

toHex(r, g, b, a) ==
    LET base == <<"#">> \o toByteHex(r) \o toByteHex(g) \o toByteHex(b)
    IN  IF a < 1000 THEN base \o toByteHex(a) ELSE base

RECURSIVE NatToString(_)
NatToString(n) ==
    IF n < 10 THEN <<Digits[n + 1]>>
    ELSE NatToString(n \div 10) \o <<Digits[(n % 10) + 1]>>

RECURSIVE StripTrailingZeros(_)
StripTrailingZeros(s) ==
    IF s # <<>> /\ s[Len(s)] = "0"
    THEN StripTrailingZeros(SubSeq(s, 1, Len(s) - 1))
    ELSE s

\* the three decimals of a number of thousandths, without trailing zeros
Decimals(f) ==
    StripTrailingZeros(<<Digits[(f \div 100) + 1], Digits[((f \div 10) % 10) + 1],
                         Digits[(f % 10) + 1]>>)

\* whether a value is truthy: what `v || fallback` tests
Truthy(v) ==
    CASE v.kind = "undefined" -> FALSE
      [] v.kind = "null" -> FALSE
      [] v.kind = "number" -> v.val # 0
      [] v.kind = "string" -> v.val # <<>>
      [] OTHER -> TRUE

\* String(v) of a string or of a number n >= 0 given in thousandths
String(v) ==
    IF v.kind = "string" THEN v.val
    ELSE NatToString(v.val \div 1000)
             \o (IF v.val % 1000 = 0 THEN <<>>
                 ELSE <<".">> \o Decimals(v.val % 1000))

\* String(v || fallback)
StringOr(v, fallback) == IF Truthy(v) THEN String(v) ELSE fallback

----------------------------------------------------------------------------
(* The diff engine: src/src/commands/diff.ts *)

PreviewLength == 180

styleSignature(node) ==
    IF node.type # "TEXT" THEN Null
    ELSE LET style == IF node.style \in {Undefined, Null}
                      THEN [fontFamily |-> Undefined, fontWeight |-> Undefined,
                            fontSize |-> Undefined, lineHeightPx |-> Undefined]
                      ELSE node.style
             family == StringOr(style.fontFamily, <<"U", "n", "k", "n", "o", "w", "n">>)
             weight == StringOr(style.fontWeight, <<>>)
             size == StringOr(style.fontSize, <<>>)
             lineHeight == StringOr(style.lineHeightPx, <<>>)
         IN  Str(family \o <<"|">> \o weight \o <<"|">> \o size \o <<"|">> \o lineHeight)

\* whether the loop of firstSolidFillColor returns at this fill
IsColoredSolid(fill) == fill.type = "SOLID" /\ fill.color \notin {Undefined, Null}

\* the alpha the loop passes to toHex
fillAlpha(fill) ==
    IF IsNumber(fill.opacity) THEN fill.opacity.val
    ELSE IF fill.color.a \in {Undefined, Null} THEN 1000
    ELSE fill.color.a.val

fillHex(fill) == toHex(fill.color.r, fill.color.g, fill.color.b, fillAlpha(fill))

firstSolidFillColor_FirstFill(node) ==
    IF ~IsArray(node.fills) THEN Null
    ELSE IF node.fills.items # <<>> /\ IsColoredSolid(node.fills.items[1])
    THEN Str(fillHex(node.fills.items[1]))
    ELSE Null

firstSolidFillColor(node) ==
    IF ~IsArray(node.fills) THEN Null
    ELSE LET fills == node.fills.items
             hits == {i \in 1..Len(fills) : IsColoredSolid(fills[i])}
         IN  IF hits = {} THEN Null
             ELSE Str(fillHex(fills[CHOOSE i \in hits : \A j \in hits : i <= j]))

\* the nodes in the order traverse hands them to its callback
RECURSIVE traverse(_)
RECURSIVE traverseChildren(_)
traverse(node) ==
    <<node>> \o (IF IsArray(node.children)
                 THEN traverseChildren(node.children.items)
                 ELSE <<>>)
traverseChildren(children) ==
    IF children = <<>> THEN <<>>
    ELSE traverse(Head(children)) \o traverseChildren(Tail(children))

\* the three accumulators of snapshot after the callback has seen `items`
RECURSIVE textPartsOf(_)
textPartsOf(items) ==
    IF items = <<>> THEN <<>>
    ELSE LET item == items[Len(items)]
             rest == textPartsOf(SubSeq(items, 1, Len(items) - 1))
             text == Trim(StringOr(item.characters, <<>>))
         IN  IF item.type = "TEXT" /\ text # <<>> THEN Append(rest, text) ELSE rest

RECURSIVE textStylesOf(_)
textStylesOf(items) ==
    IF items = <<>> THEN <<>>
    ELSE LET rest == textStylesOf(SubSeq(items, 1, Len(items) - 1))
             sig == styleSignature(items[Len(items)])
         IN  IF Truthy(sig) THEN SetAdd(rest, sig.val) ELSE rest

RECURSIVE fillColorsOf(_)
fillColorsOf(items) ==
    IF items = <<>> THEN <<>>
    ELSE LET rest == fillColorsOf(SubSeq(items, 1, Len(items) - 1))
             fill == firstSolidFillColor(items[Len(items)])
         IN  IF Truthy(fill) THEN SetAdd(rest, fill.val) ELSE rest

\* Array.prototype.join('\n')
RECURSIVE JoinLines(_)
JoinLines(parts) ==
    IF parts = <<>> THEN <<>>
    ELSE IF Len(parts) = 1 THEN parts[1]
    ELSE parts[1] \o <<"\n">> \o JoinLines(Tail(parts))

\* typeof v === t ? v : undefined
IfTypeof(v, t) == IF v.kind = t THEN v ELSE Undefined

snapshot(node) ==
    LET items == traverse(node)
        box == node.absoluteBoundingBox
    IN  [type |-> node.type,
         width |-> IF box \in {Undefined, Null} THEN Undefined ELSE box.width,
         height |-> IF box \in {Undefined, Null} THEN Undefined ELSE box.height,
         layoutMode |-> IfTypeof(node.layoutMode, "string"),
         itemSpacing |-> IfTypeof(node.itemSpacing, "number"),
         paddingTop |-> IfTypeof(node.paddingTop, "number"),
         paddingRight |-> IfTypeof(node.paddingRight, "number"),
         paddingBottom |-> IfTypeof(node.paddingBottom, "number"),
         paddingLeft |-> IfTypeof(node.paddingLeft, "number"),
         childCount |-> IF IsArray(node.children)
                        THEN Num(1000 * Len(node.children.items))
                        ELSE Num(0),
         textContent |-> JoinLines(textPartsOf(items)),
         textStyles |-> ArraySort(textStylesOf(items)),
         fillColors |-> ArraySort(fillColorsOf(items))]

Has(array, item) == \E i \in 1..Len(array) : array[i] = item

arrayDiff_RemovedAgainstBefore(before, after) ==
    [added |-> SelectSeq(after, LAMBDA item : ~Has(before, item)),
     removed |-> SelectSeq(before, LAMBDA item : ~Has(before, item))]

arrayDiff(before, after) ==
    [added |-> SelectSeq(after, LAMBDA item : ~Has(before, item)),
     removed |-> SelectSeq(before, LAMBDA item : ~Has(after, item))]

layoutKeys ==
    <<"width", "height", "layoutMode", "itemSpacing", "paddingTop",
      "paddingRight", "paddingBottom", "paddingLeft", "childCount">>

\* String.prototype.slice(0, n)
SliceFromStart(s, n) == SubSeq(s, 1, IF Len(s) < n THEN Len(s) ELSE n)

buildDiff_BothPresent(a, b) ==
    LET differing == {layoutKeys[i] : i \in
                          {j \in 1..Len(layoutKeys) :
                               /\ a[layoutKeys[j]] # b[layoutKeys[j]]
                               /\ a[layoutKeys[j]] # Undefined
                               /\ b[layoutKeys[j]] # Undefined}}
        textStyles == arrayDiff(a.textStyles, b.textStyles)
        fillColors == arrayDiff(a.fillColors, b.fillColors)
    IN  [nodes |-> [a |-> [type |-> a.type], b |-> [type |-> b.type]],
         text |-> [changed |-> a.textContent # b.textContent,
                   aLength |-> Len(a.textContent),
                   bLength |-> Len(b.textContent),
                   aPreview |-> SliceFromStart(a.textContent, PreviewLength),
                   bPreview |-> SliceFromStart(b.textContent, PreviewLength)],
         styles |-> [textStylesAddedInB |-> textStyles.added,
                     textStylesRemovedFromA |-> textStyles.removed,
                     fillColorsAddedInB |-> fillColors.added,
                     fillColorsRemovedFromA |-> fillColors.removed],
         layout |-> [key \in differing |-> [a |-> a[key], b |-> b[key]]]]

buildDiff(a, b) ==
    LET differing == {layoutKeys[i] : i \in
                          {j \in 1..Len(layoutKeys) :
                               a[layoutKeys[j]] # b[layoutKeys[j]]}}
        textStyles == arrayDiff(a.textStyles, b.textStyles)
        fillColors == arrayDiff(a.fillColors, b.fillColors)
    IN  [nodes |-> [a |-> [type |-> a.type], b |-> [type |-> b.type]],
         text |-> [changed |-> a.textContent # b.textContent,
                   aLength |-> Len(a.textContent),
                   bLength |-> Len(b.textContent),
                   aPreview |-> SliceFromStart(a.textContent, PreviewLength),
                   bPreview |-> SliceFromStart(b.textContent, PreviewLength)],
         styles |-> [textStylesAddedInB |-> textStyles.added,
                     textStylesRemovedFromA |-> textStyles.removed,
                     fillColorsAddedInB |-> fillColors.added,
                     fillColorsRemovedFromA |-> fillColors.removed],
         layout |-> [key \in differing |-> [a |-> a[key], b |-> b[key]]]]

----------------------------------------------------------------------------
(* The diff command as a state machine *)

MaxFills == 2
MaxDiffChildren == 2

SolidRed ==
    [type |-> "SOLID", opacity |-> Undefined,
     color |-> [r |-> 1000, g |-> 0, b |-> 0, a |-> Num(1000)]]
SolidBlackHalf ==
    [type |-> "SOLID", opacity |-> Num(500),
     color |-> [r |-> 0, g |-> 0, b |-> 0, a |-> Num(1000)]]
ImageFill == [type |-> "IMAGE", opacity |-> Undefined, color |-> Undefined]

DiffFills == {SolidRed, SolidBlackHalf, ImageFill}

\* the fills of a shape: at most maxFills fills, no fill twice
FillLists(maxFills) ==
    {Arr(f) : f \in {g \in UNION {[1..n -> DiffFills] : n \in 0..maxFills} :
                         \A i, j \in 1..Len(g) : g[i] = g[j] => i = j}}

NoLayout ==
    [absoluteBoundingBox |-> Undefined, layoutMode |-> Undefined,
     itemSpacing |-> Undefined, paddingTop |-> Undefined,
     paddingRight |-> Undefined, paddingBottom |-> Undefined,
     paddingLeft |-> Undefined]
VerticalLayout ==
    [absoluteBoundingBox |-> [width |-> Num(100000), height |-> Num(50000)],
     layoutMode |-> Str(<<"V", "E", "R", "T", "I", "C", "A", "L">>),
     itemSpacing |-> Num(8000), paddingTop |-> Num(0),
     paddingRight |-> Num(16000), paddingBottom |-> Num(0),
     paddingLeft |-> Num(16000)]
HorizontalLayout ==
    [absoluteBoundingBox |-> [width |-> Num(200000), height |-> Num(50000)],
     layoutMode |-> Str(<<"H", "O", "R", "I", "Z", "O", "N", "T", "A", "L">>),
     itemSpacing |-> Num(8000), paddingTop |-> Num(4000),
     paddingRight |-> Num(16000), paddingBottom |-> Undefined,
     paddingLeft |-> Undefined]

DiffLayouts == {NoLayout, VerticalLayout, HorizontalLayout}

Inter16 ==
    [fontFamily |-> Str(<<"I", "n", "t", "e", "r">>), fontWeight |-> Num(400000),
     fontSize |-> Num(16000), lineHeightPx |-> Num(19500)]

DiffNode(type, characters, style, fills, layout, children) ==
    [type |-> type, characters |-> characters, style |-> style,
     fills |-> fills, children |-> children,
     absoluteBoundingBox |-> layout.absoluteBoundingBox,
     layoutMode |-> layout.layoutMode, itemSpacing |-> layout.itemSpacing,
     paddingTop |-> layout.paddingTop, paddingRight |-> layout.paddingRight,
     paddingBottom |-> layout.paddingBottom, paddingLeft |-> layout.paddingLeft]

ShapeNodes(maxFills) ==
    {DiffNode("RECTANGLE", Undefined, Undefined, fills, NoLayout, Undefined) :
         fills \in FillLists(maxFills)}

TextNodes ==
    {DiffNode("TEXT", Undefined, Undefined, Undefined, NoLayout, Undefined),
     DiffNode("TEXT", Str(<<" ", "1">>), Inter16, Undefined, NoLayout, Undefined)}

FrameFills == {Undefined, Arr(<<SolidRed>>)}

FrameNodes(fillLists, layouts, childLists) ==
    {DiffNode("FRAME", Undefined, Undefined, fills, layout, Arr(c)) :
         fills \in fillLists, layout \in layouts, c \in childLists}

\* a frame, filled red or not, of at most maxChildren shapes, texts and empty
\* auto-layout frames without fills
DiffDocs(maxChildren, maxFills) ==
    LET leaves == ShapeNodes(maxFills) \cup TextNodes
                      \cup FrameNodes({Undefined}, DiffLayouts \ {NoLayout}, {<<>>})
    IN  FrameNodes(FrameFills, DiffLayouts,
                   UNION {[1..n -> leaves] : n \in 0..maxChildren})

\* the nodes of the document that the command can be pointed at
DiffTargets(doc) == {doc} \cup {doc.children.items[i] : i \in 1..Len(doc.children.items)}

InitDiff ==
    /\ diffDoc \in DiffDocs(MaxDiffChildren, MaxFills)
    /\ diffCall = NoCall
    /\ diffOut = Null
    /\ InitIdsIdle
    /\ InitNodesIdle
    /\ InitStylesIdle
    /\ InitAuditIdle
    /\ InitCmdIdle
    /\ InitCommentsIdle
    /\ InitExportIdle
    /\ InitAuthIdle

\* diffNodes given two node IDs that the file has: the fetched documents
\* nodeA and nodeB, their snapshots and the diff that is printed
DiffNodes ==
    /\ diffCall = NoCall
    /\ \E nodeA \in DiffTargets(diffDoc), nodeB \in DiffTargets(diffDoc) :
           LET snapA == snapshot(nodeA)
               snapB == snapshot(nodeB)
           IN  /\ diffCall' = [fn |-> "diffNodes", nodeA |-> nodeA, nodeB |-> nodeB]
               /\ diffOut' = [snapA |-> snapA, snapB |-> snapB,
                              diff |-> buildDiff(snapA, snapB)]
    /\ UNCHANGED <<diffDoc, idVars, nodeVars, styleVars, auditVars,
                 cmdVars, commentVars, exportVars, authVars>>

NextDiff == DiffNodes

SpecDiff == InitDiff /\ [][NextDiff]_vars

----------------------------------------------------------------------------
(* Properties of the diff engine *)

DiffCalled == diffCall.fn = "diffNodes"

\* strictly increasing in the order of Array.prototype.sort(): sorted, distinct
IsSortedStrings(a) == \A i, j \in 1..Len(a) : i < j => StringLess(a[i], a[j])

\* the diff the command builds when it is given the same two nodes swapped
ReverseDiff == buildDiff(snapshot(diffCall.nodeB), snapshot(diffCall.nodeA))

\* C11: the colors and style signatures that diffing A against B reports as
\* added are those that diffing B against A reports as removed, and the other
\* way round, as the same sorted lists.
Thm_C11 ==
    DiffCalled =>
        LET fwd == diffOut.diff.styles
            rev == ReverseDiff.styles
        IN  /\ fwd.fillColorsAddedInB = rev.fillColorsRemovedFromA
            /\ fwd.fillColorsRemovedFromA = rev.fillColorsAddedInB
            /\ fwd.textStylesAddedInB = rev.textStylesRemovedFromA
            /\ fwd.textStylesRemovedFromA = rev.textStylesAddedInB
            /\ IsSortedStrings(fwd.fillColorsAddedInB)
            /\ IsSortedStrings(fwd.fillColorsRemovedFromA)
            /\ IsSortedStrings(fwd.textStylesAddedInB)
            /\ IsSortedStrings(fwd.textStylesRemovedFromA)

\* A is a red frame holding a half-transparent black shape and B, which has
\* no color: two colors are removed, in sorted and not in traversal order
Wit_C11 ==
    /\ DiffCalled
    /\ diffOut.diff.styles.fillColorsRemovedFromA =
           <<fillHex(SolidBlackHalf), fillHex(SolidRed)>>
    /\ fillColorsOf(traverse(diffCall.nodeA)) =
           <<fillHex(SolidRed), fillHex(SolidBlackHalf)>>
    /\ diffOut.diff.styles.fillColorsAddedInB = <<>>
    /\ ReverseDiff.styles.fillColorsAddedInB =
           <<fillHex(SolidBlackHalf), fillHex(SolidRed)>>

\* the value snapshot records for a layout field of a node
LayoutValue(node, key) ==
    CASE key = "width" ->
             IF node.absoluteBoundingBox = Undefined THEN Undefined
             ELSE node.absoluteBoundingBox.width
      [] key = "height" ->
             IF node.absoluteBoundingBox = Undefined THEN Undefined
             ELSE node.absoluteBoundingBox.height
      [] key = "childCount" ->
             IF node.children = Undefined THEN Num(0)
             ELSE Num(1000 * Len(node.children.items))
      [] OTHER -> node[key]

LayoutFields ==
    {"width", "height", "layoutMode", "itemSpacing", "paddingTop",
     "paddingRight", "paddingBottom", "paddingLeft", "childCount"}

\* C12: the layout diff has an entry for a layout field exactly when the two
\* snapshots' values of the field differ, an absent value differing from a
\* present one; the entry carries both values, and there is no other entry.
Thm_C12 ==
    DiffCalled =>
        LET layout == diffOut.diff.layout
        IN  /\ DOMAIN layout \subseteq LayoutFields
            /\ \A key \in LayoutFields :
                   LET a == LayoutValue(diffCall.nodeA, key)
                       b == LayoutValue(diffCall.nodeB, key)
                   IN  /\ diffOut.snapA[key] = a
                       /\ diffOut.snapB[key] = b
                       /\ key \in DOMAIN layout <=> a # b
                       /\ key \in DOMAIN layout => layout[key] = [a |-> a, b |-> b]

\* a vertical frame against the horizontal frame it holds: the widths differ,
\* a bottom padding of 0 differs from an absent one, the item spacings are equal
Wit_C12 ==
    /\ DiffCalled
    /\ "width" \in DOMAIN diffOut.diff.layout
    /\ diffOut.diff.layout["width"] = [a |-> Num(100000), b |-> Num(200000)]
    /\ "paddingBottom" \in DOMAIN diffOut.diff.layout
    /\ diffOut.diff.layout["paddingBottom"] = [a |-> Num(0), b |-> Undefined]
    /\ diffOut.snapA["itemSpacing"] = Num(8000)
    /\ diffOut.snapB["itemSpacing"] = Num(8000)
    /\ "itemSpacing" \notin DOMAIN diffOut.diff.layout
    /\ "height" \notin DOMAIN diffOut.diff.layout

\* the nodes of a subtree
RECURSIVE Subtree(_)
Subtree(node) ==
    {node} \cup (IF node.children = Undefined THEN {}
                 ELSE UNION {Subtree(node.children.items[i]) :
                                 i \in 1..Len(node.children.items)})

\* the colors of all the solid fills of a node
SolidFillColors(node) ==
    IF node.fills = Undefined THEN {}
    ELSE {fillHex(node.fills.items[i]) :
              i \in {j \in 1..Len(node.fills.items) :
                         IsColoredSolid(node.fills.items[j])}}

\* the color of the first solid fill of a node, if it has one
FirstSolidFillColor(node) ==
    IF node.fills = Undefined THEN {}
    ELSE {fillHex(node.fills.items[i]) :
              i \in {j \in 1..Len(node.fills.items) :
                         /\ IsColoredSolid(node.fills.items[j])
                         /\ \A k \in 1..(j - 1) :
                                ~IsColoredSolid(node.fills.items[k])}}

\* C13 as stated: the snapshot's fill colors hold the color of every solid
\* fill of every node of the subtree, sorted and without duplicates.
Orig_C13 ==
    DiffCalled =>
        /\ \A node \in Subtree(diffCall.nodeA) :
               \A color \in SolidFillColors(node) :
                   Has(diffOut.snapA.fillColors, color)
        /\ IsSortedStrings(diffOut.snapA.fillColors)

\* C13: the snapshot's fill colors are the colors of the first solid fill of
\* every node of the subtree that has a solid fill, and no other color, sorted
\* and without duplicates.
Thm_C13 ==
    DiffCalled =>
        /\ {diffOut.snapA.fillColors[i] : i \in 1..Len(diffOut.snapA.fillColors)} =
               UNION {FirstSolidFillColor(node) : node \in Subtree(diffCall.nodeA)}
        /\ IsSortedStrings(diffOut.snapA.fillColors)

\* a red frame holding a shape whose solid fill comes after an image fill and
\* a shape with a red fill over a half-transparent black one: red is found
\* twice and listed once, after the black that was found later
Wit_C13 ==
    /\ DiffCalled
    /\ diffCall.nodeA.fills = Arr(<<SolidRed>>)
    /\ IsArray(diffCall.nodeA.children)
    /\ diffCall.nodeA.children.items =
           <<DiffNode("RECTANGLE", Undefined, Undefined,
                      Arr(<<ImageFill, SolidBlackHalf>>), NoLayout, Undefined),
             DiffNode("RECTANGLE", Undefined, Undefined,
                      Arr(<<SolidRed, SolidBlackHalf>>), NoLayout, Undefined)>>
    /\ diffOut.snapA.fillColors = <<fillHex(SolidBlackHalf), fillHex(SolidRed)>>
    /\ fillHex(SolidBlackHalf) = <<"#", "0", "0", "0", "0", "0", "0", "8", "0">>
    /\ fillHex(SolidRed) = <<"#", "f", "f", "0", "0", "0", "0">>

----------------------------------------------------------------------------
(* The audit: src/unnamed/part_002, runAudit *)

InitialScore == 100
MinScore == 0
ColorLimit == 20
ColorDeduction == 10
FontLimit == 3
FontDeduction == 10
FontSizeLimit == 10
FontSizeDeduction == 5
\* componentRatio < 0.1: fewer than one node in RatioNodes is an instance
RatioNodes == 10
RatioMinNodes == 50
RatioDeduction == 10
UnstyledLimit == 10
UnstyledDeduction == 5
NoComponentsMinNodes == 20
NoComponentsDeduction == 15
NoStylesMinNodes == 10
NoStylesDeduction == 10

MathMax(a, b) == IF a > b THEN a ELSE b

colorRule_JustOverLimit(stats) ==
    [issue |-> "High color count",
     fires |-> stats.uniqueColors = ColorLimit + 1,
     deduction |-> ColorDeduction]

colorRule(stats) ==
    [issue |-> "High color count",
     fires |-> stats.uniqueColors > ColorLimit,
     deduction |-> ColorDeduction]

fontRule(stats) ==
    [issue |-> "Too many font families",
     fires |-> stats.uniqueFonts > FontLimit,
     deduction |-> FontDeduction]

fontSizeRule(stats) ==
    [issue |-> "Many font sizes",
     fires |-> stats.uniqueFontSizes > FontSizeLimit,
     deduction |-> FontSizeDeduction]

\* componentInstances / Math.max(totalNodes, 1) < 0.1, in integers: the
\* quotient of two small integers is never within rounding distance of 0.1
\* unless it is 0.1
componentRatioIsLow(stats) ==
    RatioNodes * stats.componentInstances < MathMax(stats.totalNodes, 1)

componentUsageRule_AnySize(stats) ==
    [issue |-> "Low component usage",
     fires |-> componentRatioIsLow(stats),
     deduction |-> RatioDeduction]

componentUsageRule(stats) ==
    [issue |-> "Low component usage",
     fires |-> componentRatioIsLow(stats) /\ stats.totalNodes > RatioMinNodes,
     deduction |-> RatioDeduction]

unstyledRule(stats) ==
    [issue |-> "elements without styles",
     fires |-> stats.unstyled > UnstyledLimit,
     deduction |-> UnstyledDeduction]

noComponentsRule(stats) ==
    [issue |-> "No components defined",
     fires |-> stats.components = 0 /\ stats.totalNodes > NoComponentsMinNodes,
     deduction |-> NoComponentsDeduction]

noStylesRule(stats, definedStylesCount) ==
    [issue |-> "No styles defined in file",
     fires |-> definedStylesCount = 0 /\ stats.totalNodes > NoStylesMinNodes,
     deduction |-> NoStylesDeduction]

\* the seven checks in the order runAudit makes them
auditRules(stats, definedStylesCount) ==
    <<colorRule(stats), fontRule(stats), fontSizeRule(stats),
      componentUsageRule(stats), unstyledRule(stats), noComponentsRule(stats),
      noStylesRule(stats, definedStylesCount)>>

deduct_Adds(score, rule) == IF rule.fires THEN score + rule.deduction ELSE score

\* if (...) { result.issues.push(...); result.score -= deduction; }
deduct(score, rule) == IF rule.fires THEN score - rule.deduction ELSE score

RECURSIVE scoreAfter(_, _)
scoreAfter(rules, score) ==
    IF rules = <<>> THEN score
    ELSE scoreAfter(Tail(rules), deduct(score, Head(rules)))

issuesOf(rules) ==
    LET fired == SelectSeq(rules, LAMBDA rule : rule.fires)
    IN  [i \in 1..Len(fired) |-> fired[i].issue]

\* the result runAudit reports for the counts of its traversal
runAudit(stats, definedStylesCount) ==
    LET rules == auditRules(stats, definedStylesCount)
    IN  [score |-> MathMax(MinScore, scoreAfter(rules, InitialScore)),
         issues |-> issuesOf(rules),
         stats |-> stats]

----------------------------------------------------------------------------
(* The audit as a state machine *)

MaxAdded == 2

\* counts at and around the thresholds of the rules
TotalNodeCounts ==
    {1} \cup {NoStylesMinNodes, NoComponentsMinNodes, RatioMinNodes}
        \cup {NoStylesMinNodes + 1, NoComponentsMinNodes + 1, RatioMinNodes + 1}
ComponentCounts == {0, 1}
InstanceCounts == {0, RatioMinNodes \div RatioNodes, (RatioMinNodes \div RatioNodes) + 1}
ColorCounts == {0, ColorLimit, ColorLimit + 1}
FontCounts == {0, FontLimit, FontLimit + 1}
FontSizeCounts == {0, FontSizeLimit, FontSizeLimit + 1}
UnstyledCounts == {0, UnstyledLimit, UnstyledLimit + 1}
DefinedStyleCounts == {0, 1}

\* the counters of the traversal that a rule reads (frames, textNodes,
\* stylesUsed and detachedInstances are reported only)
AllStats ==
    [totalNodes : TotalNodeCounts, components : ComponentCounts,
     componentInstances : InstanceCounts, uniqueColors : ColorCounts,
     uniqueFonts : FontCounts, uniqueFontSizes : FontSizeCounts,
     unstyled : UnstyledCounts]

\* the counts some subtree has: a node is counted once in totalNodes, a
\* component or an instance is no text or shape, every font family, font
\* size and unstyled element needs a text or shape node of its own kind
IsCountOfSubtree(stats) ==
    stats.components + stats.componentInstances
        + MathMax(stats.unstyled, MathMax(stats.uniqueFonts, stats.uniqueFontSizes))
        <= stats.totalNodes

InitAudit ==
    /\ auditStats \in {stats \in AllStats : IsCountOfSubtree(stats)}
    /\ auditStyles \in DefinedStyleCounts
    /\ auditCall = NoCall
    /\ auditOut = Null
    /\ InitIdsIdle
    /\ InitNodesIdle
    /\ InitStylesIdle
    /\ InitDiffIdle
    /\ InitCmdIdle
    /\ InitCommentsIdle
    /\ InitExportIdle
    /\ InitAuthIdle

\* runAudit on a fetched file: the traversal has counted auditStats; a second
\* run remembers the result of the first
RunAudit ==
    /\ auditCall.fn \in {"none", "addSolidFills"}
    /\ auditCall' = [fn |-> "runAudit",
                     previous |-> IF auditCall.fn = "none" THEN Null ELSE auditOut]
    /\ auditOut' = runAudit(auditStats, auditStyles)
    /\ UNCHANGED <<auditStats, auditStyles, idVars, nodeVars, styleVars, diffVars,
                 cmdVars, commentVars, exportVars, authVars>>

\* the nodes that are neither components nor instances nor counted as unstyled
Unmarked(stats) ==
    stats.totalNodes - stats.components - stats.componentInstances - stats.unstyled

\* The design is edited between two runs: solid fills of `colors` colors that
\* the subtree did not have are put on nodes, `shapes` of which are new
\* rectangles. The traversal then counts the new colors (each solid fill's
\* color is added to the set), the new nodes, and as unstyled each text or
\* shape node without styles that had no solid fill before.
AddSolidFills ==
    /\ auditCall.fn = "runAudit"
    /\ auditCall.previous = Null
    /\ \E colors \in 1..MaxAdded :
       \E shapes \in 0..colors :
       \E unstyled \in 0..colors :
           /\ unstyled <= Unmarked(auditStats) + shapes
           /\ auditStats' =
                  [auditStats EXCEPT !.uniqueColors = @ + colors,
                                     !.totalNodes = @ + shapes,
                                     !.unstyled = @ + unstyled]
           /\ auditCall' = [fn |-> "addSolidFills", colors |-> colors]
    /\ UNCHANGED <<auditStyles, auditOut, idVars, nodeVars, styleVars, diffVars,
                 cmdVars, commentVars, exportVars, authVars>>

NextAudit == RunAudit \/ AddSolidFills

SpecAudit == InitAudit /\ [][NextAudit]_vars

----------------------------------------------------------------------------
(* Properties of the audit *)

Audited == auditCall.fn = "runAudit"

IfThen(condition, amount) == IF condition THEN amount ELSE 0

\* the sum of the deductions of the rules that fire
Deductions(stats, definedStylesCount) ==
    IfThen(stats.uniqueColors > 20, 10)
    + IfThen(stats.uniqueFonts > 3, 10)
    + IfThen(stats.uniqueFontSizes > 10, 5)
    + IfThen(10 * stats.componentInstances < stats.totalNodes
             /\ stats.totalNodes > 50, 10)
    + IfThen(stats.unstyled > 10, 5)
    + IfThen(stats.components = 0 /\ stats.totalNodes > 20, 15)
    + IfThen(definedStylesCount = 0 /\ stats.totalNodes > 10, 10)

\* C14: the score is max(0, 100 - D), D the sum of the deductions of the
\* rules that fire on the collected statistics, each on its own.
Thm_C14 ==
    Audited =>
        /\ auditOut.stats = auditStats
        /\ auditOut.score =
               MathMax(0, 100 - Deductions(auditStats, auditStyles))

\* 21 colors and no component among 21 nodes fire, 3 fonts, 10 font sizes and
\* 10 unstyled elements are at their limits and do not: 100 - 10 - 15
Wit_C14 ==
    /\ Audited
    /\ auditStats.uniqueColors = 21
    /\ auditStats.uniqueFonts = 3
    /\ auditStats.uniqueFontSizes = 10
    /\ auditStats.unstyled = 10
    /\ auditStats.totalNodes = 21
    /\ auditStats.components = 0
    /\ auditStyles = 1
    /\ auditOut.score = 75
    /\ auditOut.issues = <<"High color count", "No components defined">>

\* C15: the reported score lies between 0 and 100.
Thm_C15 == Audited => auditOut.score >= 0 /\ auditOut.score <= 100

\* every rule fires: 100 - 65
Wit_C15 ==
    /\ Audited
    /\ Len(auditOut.issues) = 7
    /\ auditOut.score = 35

\* C16: a second audit after solid fills of new colors were added to a subtree
\* that had more than 20 colors does not report a higher score than the first.
Thm_C16 ==
    (Audited /\ auditCall.previous # Null
        /\ auditCall.previous.stats.uniqueColors > 20) =>
            auditOut.score <= auditCall.previous.score

\* from 21 to 23 colors; two of the filled nodes are new unstyled elements,
\* which makes 11 of them: the score drops by 5
Wit_C16 ==
    /\ Audited
    /\ auditCall.previous # Null
    /\ auditCall.previous.stats.uniqueColors = 21
    /\ auditOut.stats.uniqueColors = 23
    /\ auditCall.previous.stats.unstyled = 10
    /\ auditOut.stats.unstyled = 11
    /\ auditOut.score = auditCall.previous.score - 5

----------------------------------------------------------------------------
(* Token resolution: src/unnamed/part_005 (auth.ts), src/src/api.ts *)

\* value?.trim()
OptionalTrim(v) == IF v \in {Undefined, Null} THEN Undefined ELSE Str(Trim(v.val))

getFigmaToken_Untrimmed(envValue, configValue) ==
    IF Truthy(envValue) THEN envValue
    ELSE LET configToken == IF configValue.kind = "string"
                            THEN Str(Trim(configValue.val))
                            ELSE Str(<<>>)
         IN  IF Truthy(configToken) THEN configToken ELSE Undefined

\* envValue is process.env.FIGMA_TOKEN, configValue is readConfig().figmaToken
getFigmaToken(envValue, configValue) ==
    LET envToken == OptionalTrim(envValue)
    IN  IF Truthy(envToken) THEN envToken
        ELSE LET configToken == IF configValue.kind = "string"
                                THEN Str(Trim(configValue.val))
                                ELSE Str(<<>>)
             IN  IF Truthy(configToken) THEN configToken ELSE Undefined

----------------------------------------------------------------------------
(* The commands as programs of steps: what each handler does, in order *)

\* throw an input error if the input has the flaw
Validate(flaw) == [op |-> "validate", flaw |-> flaw]
\* await an API call; a failure is thrown, or caught, and then the next
\* skip steps are not run
Fetch(api) ==
    [op |-> "fetch", api |-> api, caught |-> FALSE, skip |-> 0, ids |-> <<>>]
FetchCaught(api, skip) ==
    [op |-> "fetch", api |-> api, caught |-> TRUE, skip |-> skip, ids |-> <<>>]
\* export's image request for the nodes of a batch, inside the batch's catch
FetchImages(ids, skip) ==
    [op |-> "fetch", api |-> "getImages", caught |-> TRUE, skip |-> skip, ids |-> ids]
\* await Promise.all of API calls, the failures of some of which are caught
FetchAll(apis, caught) == [op |-> "fetchAll", apis |-> apis, caught |-> caught]
\* look the requested node or page up in a response; throws if it is absent
Lookup == [op |-> "lookup"]
\* compute on the fetched graph
Derive == [op |-> "derive"]
\* print the result
Output == [op |-> "output"]
\* create a directory or write a file
WriteFile == [op |-> "write", node |-> <<>>]
\* export's write of the image of a node
WriteImage(node) == [op |-> "write", node |-> <<node>>]
\* export's exported++
Count == [op |-> "count"]
\* export's download of one image; own steps of the same image and rest
\* steps of the batch follow it
Download(node, own, rest) ==
    [op |-> "download", node |-> node, own |-> own, rest |-> rest]
\* export's crop of one image; rest steps remain in the batch after it
Crop(rest) == [op |-> "crop", rest |-> rest]

When(condition, steps) == IF condition THEN steps ELSE <<>>

infoSteps(input) ==
    <<Validate("fileKey"),
      FetchAll(<<"getFile", "getVersions", "getComments">>,
               {"getVersions", "getComments"}),
      Derive>>
    \o When(input.page, <<Lookup>>)
    \o <<Output>>

tokensSteps(input) ==
    <<Validate("fileKey"),
      FetchCaught("getLocalVariables", 1), Derive,
      FetchCaught("getFile", 1), Derive,
      Output>>

exportNodeSteps_CountOnDownload(input, node, rest) ==
    IF input.crop = "none"
    THEN <<Download(node, 2, rest + 2), Count, WriteImage(node)>>
    ELSE <<Download(node, 3, rest + 3), Count, Crop(rest + 1), WriteImage(node)>>

\* the steps of one node of a batch, rest steps of the batch following them
exportNodeSteps(input, node, rest) ==
    IF input.crop = "none"
    THEN <<Download(node, 2, rest + 2), WriteImage(node), Count>>
    ELSE <<Download(node, 3, rest + 3), Crop(rest + 2), WriteImage(node), Count>>

\* the steps of the nodes from..to of a batch
RECURSIVE exportBatchNodes(_, _, _)
exportBatchNodes(input, from, to) ==
    IF from > to THEN <<>>
    ELSE LET rest == exportBatchNodes(input, from + 1, to)
         IN  exportNodeSteps(input, from, Len(rest)) \o rest

exportBatchSteps(input, from, to) ==
    LET nodes == exportBatchNodes(input, from, to)
    IN  <<FetchImages([k \in 1..(to - from + 1) |-> from + k - 1], Len(nodes))>>
        \o nodes

\* for (i = 0; i < nodesToExport.length; i += batchSize) slice(i, i + batchSize)
RECURSIVE exportBatches(_, _, _)
exportBatches(input, from, batchSize) ==
    IF from > input.nodes THEN <<>>
    ELSE LET to == IF from + batchSize - 1 < input.nodes
                   THEN from + batchSize - 1 ELSE input.nodes
         IN  exportBatchSteps(input, from, to)
                 \o exportBatches(input, to + 1, batchSize)

exportSteps_FetchFirst(input, batchSize) ==
    <<Validate("fileKey"), Fetch("getFile"),
      Validate("scale"), Validate("crop"), Validate("cropFormat"), Derive>>
    \o When(input.nodes > 0, <<WriteFile>>)
    \o exportBatches(input, 1, batchSize)
    \o <<Output>>

exportSteps(input, batchSize) ==
    <<Validate("fileKey"), Validate("scale"), Validate("crop"),
      Validate("cropFormat"), Fetch("getFile"), Derive>>
    \o When(input.nodes > 0, <<WriteFile>>)
    \o exportBatches(input, 1, batchSize)
    \o <<Output>>

auditSteps_NodeFetchCaught(input) ==
    <<Validate("fileKey"), Validate("bothFlags"), Fetch("getFile")>>
    \o When(input.scoped, <<FetchCaught("getFileNodes", 1), Lookup>>)
    \o When(~input.scoped /\ input.page, <<Lookup>>)
    \o <<Derive, Output>>

auditSteps(input) ==
    <<Validate("fileKey"), Validate("bothFlags"), Fetch("getFile")>>
    \o When(input.scoped, <<Fetch("getFileNodes"), Lookup>>)
    \o When(~input.scoped /\ input.page, <<Lookup>>)
    \o <<Derive, Output>>

componentsSteps(input) ==
    <<Validate("fileKey"), Fetch("getFile")>>
    \o When(input.page, <<Lookup>>)
    \o <<Derive, Output>>

typographySteps(input) ==
    <<Validate("fileKey")>>
    \o (IF input.scoped THEN <<Fetch("getFileNodes"), Lookup>>
        ELSE <<Fetch("getFile")>>)
    \o <<Derive, Output>>

\* input.preview: previews are wanted and a shown comment is anchored to a node
commentsSteps(input) ==
    <<Validate("fileKey"), Validate("since"), Validate("until"),
      Validate("sinceAfterUntil"), Fetch("getComments")>>
    \o When(input.page, <<Fetch("getFile")>>)
    \o <<Derive>>
    \o When(input.preview, <<FetchCaught("getFileNodes", 1), Derive>>)
    \o <<Output>>

textSteps(input) ==
    <<Validate("fileKey"), Validate("bothFlags")>>
    \o (IF input.scoped THEN <<Fetch("getFileNodes"), Lookup>>
        ELSE <<Fetch("getFile")>> \o When(input.page, <<Lookup>>))
    \o <<Derive, Output>>

searchSteps(input) ==
    <<Validate("fileKey"), Validate("query"), Validate("bothFlags")>>
    \o (IF input.scoped THEN <<Fetch("getFileNodes"), Lookup>>
        ELSE <<Fetch("getFile")>> \o When(input.page, <<Lookup>>))
    \o <<Derive, Output>>

stylesSteps(input) ==
    <<Validate("fileKey"), Validate("bothFlags"), Validate("neitherFlag"),
      Validate("noValidIds"),
      FetchAll(<<"getFileNodes", "getFile">>, {}),
      Derive, Lookup, Derive, Output>>

diffSteps(input) ==
    <<Validate("fileKey"), Validate("noNodeId"), Validate("notTwoIds"),
      Fetch("getFileNodes"), Lookup, Derive, Output>>

inspectSteps(input) ==
    <<Validate("fileKey"), Validate("noNodeId"), Fetch("getFile"), Lookup,
      Derive, Output>>

treeSteps(input) ==
    <<Validate("fileKey"), Validate("bothFlags"), Fetch("getFile")>>
    \o When(input.scoped \/ input.page, <<Lookup>>)
    \o <<Derive, Output>>

\* the quick command: a heading and getFileInfo, a heading and runAudit
quickSteps(input) ==
    <<Output>> \o infoSteps(input) \o <<Output>> \o auditSteps(input)

----------------------------------------------------------------------------
(* Running a command under the dispatcher: src/src/cli.ts withErrorHandling *)

MaxExportNodes == 3
BatchSize == 2

EnvTokens == {Undefined, Str(<<" ">>), Str(<<" ", "1", " ">>)}
ConfigTokens == {Undefined, Num(1000), Str(<<>>), Str(<<" ", "2">>)}

CommandFlaws ==
    [info |-> {"fileKey"}, tokens |-> {"fileKey"},
     export |-> {"fileKey", "scale", "crop", "cropFormat"},
     audit |-> {"fileKey"}, components |-> {"fileKey"},
     typography |-> {"fileKey"},
     comments |-> {"fileKey", "since", "until", "sinceAfterUntil"},
     text |-> {"fileKey"}, search |-> {"fileKey", "query"},
     styles |-> {"fileKey", "noValidIds"},
     diff |-> {"fileKey", "noNodeId", "notTwoIds"},
     inspect |-> {"fileKey", "noNodeId"}, tree |-> {"fileKey"},
     quick |-> {"fileKey"}]

Commands == DOMAIN CommandFlaws
ScopedCommands == {"audit", "typography", "text", "search", "styles", "tree", "quick"}
PageCommands == {"info", "audit", "components", "comments", "text", "search", "styles", "tree", "quick"}

\* scoped and page are the two flags of the command's exclusive pair:
\* --node-id and --page, or for styles --node-id and --node-ids
InputsOf(command, scopedSet, pageSet, previewSet, cropSet, nodeSet) ==
    {[command |-> command, flaws |-> flaws, scoped |-> scoped, page |-> page,
      preview |-> preview, crop |-> crop, nodes |-> nodes,
      env |-> env, config |-> config] :
        flaws \in SUBSET CommandFlaws[command],
        scoped \in scopedSet, page \in pageSet, preview \in previewSet,
        crop \in cropSet, nodes \in nodeSet,
        env \in EnvTokens, config \in ConfigTokens}

CommandInputs(maxExportNodes) ==
    UNION {InputsOf(command,
                    IF command \in ScopedCommands THEN BOOLEAN ELSE {FALSE},
                    IF command \in PageCommands THEN BOOLEAN ELSE {FALSE},
                    IF command = "comments" THEN BOOLEAN ELSE {FALSE},
                    IF command = "export" THEN {"none", "inside", "outside"}
                                          ELSE {"none"},
                    IF command = "export" THEN 0..maxExportNodes ELSE {0}) :
           command \in Commands}

\* does the check of this flaw reject the input
HasFlaw(input, flaw) ==
    CASE flaw = "bothFlags" -> input.scoped /\ input.page
      [] flaw = "neitherFlag" -> ~input.scoped /\ ~input.page
      [] flaw \in {"crop", "cropFormat"} ->
             input.crop # "none" /\ flaw \in input.flaws
      [] OTHER -> flaw \in input.flaws

StepsOf(input) ==
    CASE input.command = "info" -> infoSteps(input)
      [] input.command = "tokens" -> tokensSteps(input)
      [] input.command = "export" -> exportSteps(input, BatchSize)
      [] input.command = "audit" -> auditSteps(input)
      [] input.command = "components" -> componentsSteps(input)
      [] input.command = "typography" -> typographySteps(input)
      [] input.command = "comments" -> commentsSteps(input)
      [] input.command = "text" -> textSteps(input)
      [] input.command = "search" -> searchSteps(input)
      [] input.command = "styles" -> stylesSteps(input)
      [] input.command = "diff" -> diffSteps(input)
      [] input.command = "inspect" -> inspectSteps(input)
      [] input.command = "tree" -> treeSteps(input)
      [] input.command = "quick" -> quickSteps(input)

Event(ev, api, kind, token) ==
    [ev |-> ev, api |-> api, kind |-> kind, token |-> token, results |-> <<>>]
RequestEvent(api, token) == Event("request", api, "", token)
FailureEvent(api, kind) == Event("failure", api, kind, Undefined)
ErrorEvent(kind) == Event("error", "", kind, Undefined)
StepEvent(ev) == Event(ev, "", "", Undefined)
ResponseEvent(api) == Event("response", api, "", Undefined)
\* the jointly awaited calls have all completed, with these results in order
JoinedEvent(results) == [Event("joined", "", "", Undefined) EXCEPT !.results = results]

\* api.ts request: getToken, then fetch with the token header
CallOutcomes(token) == IF Truthy(token) THEN {"ok", "fails"} ELSE {"unconfigured"}
CallEvents(api, token, outcome) ==
    CASE outcome = "unconfigured" -> <<FailureEvent(api, "configuration")>>
      [] outcome = "ok" -> <<RequestEvent(api, token)>>
      [] outcome = "fails" -> <<RequestEvent(api, token), FailureEvent(api, "remote-API")>>

Last(s) == s[Len(s)]

InitCommands ==
    /\ cmdInput \in CommandInputs(MaxExportNodes)
    /\ cmdSteps = StepsOf(cmdInput)
    /\ cmdLog = <<>>
    /\ cmdStatus = "running"
    /\ cmdExported = 0
    /\ InitIdsIdle /\ InitNodesIdle /\ InitStylesIdle /\ InitDiffIdle
    /\ InitAuditIdle /\ InitCommentsIdle /\ InitExportIdle /\ InitAuthIdle

Running(op) ==
    /\ cmdStatus = "running"
    /\ cmdSteps # <<>>
    /\ Head(cmdSteps).op = op

Continue(events, skip) ==
    /\ cmdLog' = cmdLog \o events
    /\ cmdSteps' = SubSeq(cmdSteps, 2 + skip, Len(cmdSteps))
    /\ UNCHANGED cmdStatus
    /\ cmdExported' = cmdExported + (IF Head(cmdSteps).op = "count" THEN 1 ELSE 0)

Throw_ExitZero(events, kind) ==
    /\ cmdLog' = cmdLog \o events \o <<ErrorEvent(kind)>>
    /\ cmdSteps' = <<>>
    /\ cmdStatus' = "done"
    /\ UNCHANGED cmdExported

\* the error reaches withErrorHandling: it is reported and the process exits 1
Throw(events, kind) ==
    /\ cmdLog' = cmdLog \o events \o <<ErrorEvent(kind)>>
    /\ cmdSteps' = <<>>
    /\ cmdStatus' = "exit1"
    /\ UNCHANGED cmdExported

otherOfCmd == <<idVars, nodeVars, styleVars, diffVars, auditVars, commentVars, exportVars, authVars>>

RunValidate ==
    /\ Running("validate")
    /\ IF HasFlaw(cmdInput, Head(cmdSteps).flaw)
       THEN Throw(<<>>, "validation")
       ELSE Continue(<<>>, 0)
    /\ UNCHANGED <<cmdInput, otherOfCmd>>

RunFetch ==
    /\ Running("fetch")
    /\ LET step == Head(cmdSteps)
           token == getFigmaToken(cmdInput.env, cmdInput.config)
       IN  \E outcome \in CallOutcomes(token) :
               LET called == CallEvents(step.api, token, outcome)
                   events == [i \in DOMAIN called |->
                                  IF called[i].ev = "request"
                                  THEN [called[i] EXCEPT !.results = step.ids]
                                  ELSE called[i]]
               IN  IF outcome = "ok" THEN Continue(events, 0)
                   ELSE IF step.caught THEN Continue(events, step.skip)
                   ELSE Throw(events, Last(events).kind)
    /\ UNCHANGED <<cmdInput, otherOfCmd>>

CompletionOrders(n) ==
    {order \in [1..n -> 1..n] : \A i, j \in 1..n : i # j => order[i] # order[j]}

promiseAll_CompletionOrder(apis, order) == [k \in DOMAIN apis |-> apis[order[k]]]

\* the array Promise.all resolves to, whatever the order of completion
promiseAll(apis, order) == apis

\* the calls are made one after the other without awaiting; they complete in
\* any order; Promise.all rejects at the first failure that is not caught
RunFetchAll ==
    /\ Running("fetchAll")
    /\ LET step == Head(cmdSteps)
           token == getFigmaToken(cmdInput.env, cmdInput.config)
           calls == DOMAIN step.apis
       IN  \E outcomes \in [calls -> CallOutcomes(token)],
              order \in CompletionOrders(Len(step.apis)) :
               LET requests == IF Truthy(token)
                               THEN [i \in calls |-> RequestEvent(step.apis[i], token)]
                               ELSE <<>>
                   Completion(i) ==
                       IF outcomes[i] = "ok" THEN ResponseEvent(step.apis[i])
                       ELSE Last(CallEvents(step.apis[i], token, outcomes[i]))
                   Thrown(i) == /\ outcomes[i] # "ok"
                                /\ step.apis[i] \notin step.caught
                   thrown == {k \in calls : Thrown(order[k])}
                   first == IF thrown = {} THEN Len(step.apis)
                            ELSE CHOOSE k \in thrown : \A l \in thrown : k <= l
                   completions == [k \in 1..first |-> Completion(order[k])]
               IN  IF thrown = {}
                   THEN Continue(requests \o completions
                                     \o <<JoinedEvent(promiseAll(step.apis, order))>>,
                                 0)
                   ELSE Throw(requests \o completions, Last(completions).kind)
    /\ UNCHANGED <<cmdInput, otherOfCmd>>

RunLookup ==
    /\ Running("lookup")
    /\ \E found \in BOOLEAN :
           IF found THEN Continue(<<>>, 0) ELSE Throw(<<>>, "not-found")
    /\ UNCHANGED <<cmdInput, otherOfCmd>>

RunDerive ==
    /\ Running("derive")
    /\ Continue(<<StepEvent("derive")>>, 0)
    /\ UNCHANGED <<cmdInput, otherOfCmd>>

RunOutput ==
    /\ Running("output")
    /\ Continue(<<StepEvent("output")>>, 0)
    /\ UNCHANGED <<cmdInput, otherOfCmd>>

RunWrite ==
    /\ Running("write")
    /\ Continue(<<[StepEvent("write") EXCEPT !.results = Head(cmdSteps).node]>>, 0)
    /\ UNCHANGED <<cmdInput, otherOfCmd>>

RunCount ==
    /\ Running("count")
    /\ Continue(<<>>, 0)
    /\ UNCHANGED <<cmdInput, otherOfCmd>>

\* export.ts 151-169: no image URL, a downloaded image, a response that is
\* not ok, or a fetch that throws into the catch of the batch
RunDownload ==
    /\ Running("download")
    /\ LET step == Head(cmdSteps)
           sent == [RequestEvent("download", Undefined) EXCEPT !.results = <<step.node>>]
       IN  \E outcome \in {"noUrl", "ok", "notOk", "throws"} :
               CASE outcome = "noUrl" -> Continue(<<>>, step.own)
                 [] outcome = "ok" -> Continue(<<sent>>, 0)
                 [] outcome = "notOk" ->
                        Continue(<<sent, FailureEvent("download", "remote-API")>>,
                                 step.own)
                 [] outcome = "throws" ->
                        Continue(<<sent, FailureEvent("download", "remote-API")>>,
                                 step.rest)
    /\ UNCHANGED <<cmdInput, otherOfCmd>>

\* export.ts 48-67 applyPngCrop, thrown into the catch of the batch
RunCrop ==
    /\ Running("crop")
    /\ IF cmdInput.crop = "outside"
       THEN Continue(<<FailureEvent("crop", "crop-bounds")>>, Head(cmdSteps).rest)
       ELSE Continue(<<>>, 0)
    /\ UNCHANGED <<cmdInput, otherOfCmd>>

Finish ==
    /\ cmdStatus = "running"
    /\ cmdSteps = <<>>
    /\ cmdStatus' = "done"
    /\ UNCHANGED <<cmdInput, cmdSteps, cmdLog, cmdExported, otherOfCmd>>

NextCommands ==
    \/ RunValidate \/ RunFetch \/ RunFetchAll \/ RunLookup \/ RunDerive
    \/ RunOutput \/ RunWrite \/ RunCount \/ RunDownload \/ RunCrop \/ Finish

SpecCommands == InitCommands /\ [][NextCommands]_vars

----------------------------------------------------------------------------
(* Properties of the commands' control flow *)

\* the fetch whose failure is logged at position i failed, by the API's
\* answer or for want of a token
FetchFailedAt(i) ==
    /\ cmdLog[i].ev = "failure"
    /\ cmdLog[i].kind \in {"remote-API", "configuration"}

\* the command was aborted by what is logged at position i: the dispatcher
\* has reported an error and nothing but that was done afterwards
AbortedAt(i) ==
    /\ cmdStatus = "exit1"
    /\ Last(cmdLog).ev = "error"
    /\ \A j \in (i + 1)..Len(cmdLog) :
           cmdLog[j].ev \notin {"request", "derive", "output", "write"}

\* the fetches whose failure the handlers catch
ToleratedFetches ==
    {<<"comments", "getFileNodes">>,
     <<"info", "getVersions">>, <<"info", "getComments">>,
     <<"quick", "getVersions">>, <<"quick", "getComments">>,
     <<"tokens", "getLocalVariables">>, <<"tokens", "getFile">>,
     <<"export", "getImages">>, <<"export", "download">>}

\* C17 as stated: in every command the failure of any remote fetch aborts the
\* whole command, the comments command's node-preview fetch alone excepted.
Orig_C17 ==
    \A i \in DOMAIN cmdLog :
        (/\ FetchFailedAt(i)
         /\ <<cmdInput.command, cmdLog[i].api>> # <<"comments", "getFileNodes">>)
        => AbortedAt(i)

\* C17, amended: the failure of a remote fetch aborts the whole command (the
\* dispatcher reports the error, and no later fetch, derivation, output or
\* write runs) unless it is the comments command's node-preview fetch, the
\* info command's versions or comments fetch, one of the tokens command's two
\* fetches, or an image request or download of the export command.
Thm_C17 ==
    \A i \in DOMAIN cmdLog :
        (/\ FetchFailedAt(i)
         /\ <<cmdInput.command, cmdLog[i].api>> \notin ToleratedFetches)
        => AbortedAt(i)

\* a scoped audit whose node fetch fails after the file fetch succeeded
Wit_C17 ==
    /\ cmdInput # Null
    /\ cmdInput.command = "audit"
    /\ cmdStatus = "exit1"
    /\ Len(cmdLog) = 4
    /\ cmdLog[1].ev = "request" /\ cmdLog[1].api = "getFile"
    /\ cmdLog[2].ev = "request" /\ cmdLog[2].api = "getFileNodes"
    /\ cmdLog[3] = FailureEvent("getFileNodes", "remote-API")
    /\ cmdLog[4] = ErrorEvent("remote-API")

ClaimedToken ==
    IF cmdInput.env.kind = "string" /\ Trim(cmdInput.env.val) # <<>>
    THEN Str(Trim(cmdInput.env.val))
    ELSE IF cmdInput.config.kind = "string" /\ Trim(cmdInput.config.val) # <<>>
    THEN Str(Trim(cmdInput.config.val))
    ELSE Undefined

RequestsIn(log) == {i \in DOMAIN log : log[i].ev = "request"}

\* C20 as stated: no HTTP request is ever sent without a token.
Orig_C20 ==
    \A i \in RequestsIn(cmdLog) : cmdLog[i].token = ClaimedToken /\ Truthy(cmdLog[i].token)

\* C20, amended: every request to the Figma API carries the token, which is
\* the trimmed FIGMA_TOKEN environment variable when non-empty, otherwise the
\* trimmed token of the config file when non-empty; when neither yields a
\* token, every API call fails with a configuration error and no request of
\* any kind is made.  The export command's image downloads carry no token,
\* and are made only after a request that carried it.
Thm_C20 ==
    /\ \A i \in RequestsIn(cmdLog) :
           IF cmdLog[i].api = "download"
           THEN /\ cmdLog[i].token = Undefined
                /\ \E j \in 1..(i - 1) :
                       /\ cmdLog[j].ev = "request"
                       /\ cmdLog[j].api = "getImages"
                       /\ cmdLog[j].token = ClaimedToken
                       /\ Truthy(ClaimedToken)
           ELSE cmdLog[i].token = ClaimedToken /\ Truthy(ClaimedToken)
    /\ ClaimedToken = Undefined =>
           /\ RequestsIn(cmdLog) = {}
           /\ \A i \in DOMAIN cmdLog :
                  cmdLog[i].ev = "failure" => cmdLog[i].kind = "configuration"

\* an export under a blank environment variable and a padded config token:
\* the API requests carry the trimmed config token, the download none
Wit_C20 ==
    /\ cmdInput # Null
    /\ cmdInput.command = "export"
    /\ cmdInput.env = Str(<<" ">>)
    /\ cmdInput.config = Str(<<" ", "2">>)
    /\ cmdStatus = "done"
    /\ \E i \in DOMAIN cmdLog : cmdLog[i] = RequestEvent("getFile", Str(<<"2">>))
    /\ \E i \in DOMAIN cmdLog :
           /\ cmdLog[i].ev = "request" /\ cmdLog[i].api = "download"
           /\ cmdLog[i].token = Undefined

\* the tokens command with no token configured: both API calls fail with a
\* configuration error, nothing is requested
NoTokenReached ==
    /\ cmdInput # Null
    /\ cmdInput.command = "tokens"
    /\ cmdStatus = "done"
    /\ cmdLog = <<FailureEvent("getLocalVariables", "configuration"),
                  FailureEvent("getFile", "configuration"), StepEvent("output")>>

----------------------------------------------------------------------------
(* The comments command: src/unnamed/part_004 (comments.ts) *)

DefaultLimit == 100

commentNodeId(nodeId) == ReplaceAllDashes(Trim(nodeId))

ToLowerCase(s) == [i \in 1..Len(s) |-> IF s[i] = "B" THEN "b" ELSE s[i]]

\* String.prototype.includes
Includes(s, t) ==
    \E start \in 1..(Len(s) - Len(t) + 1) :
        SubSeq(s, start, start + Len(t) - 1) = t

\* Array.prototype.filter
Filter(items, Keep(_)) == SelectSeq(items, Keep)

\* Array.prototype.slice(0, limit)
SliceTo(items, limit) == SubSeq(items, 1, IF limit < Len(items) THEN limit ELSE Len(items))

\* the view of one comment; message and author are copied as they are and
\* left out; a key that is absent or undefined is Undefined
toCommentView(comment) ==
    [id |-> comment.id,
     createdAt |-> comment.created_at,
     resolved |-> Truthy(comment.resolved_at),
     resolvedAt |-> comment.resolved_at,
     nodeId |-> comment.node_id,
     page |-> Undefined,
     nodeTextPreview |-> Undefined]

\* buildNodePageMap of the fetched file: the page of each node
PageOfNode(nodeId) ==
    CASE nodeId = <<"1", ":", "2">> -> Str(<<"A", "B">>)
      [] nodeId = <<"1", ":", "3">> -> Str(<<"A">>)
      [] OTHER -> Undefined

\* the preview that buildNodeTextPreview makes of each node of the response
PreviewOfNode(nodeId) ==
    CASE nodeId = <<"1", ":", "2">> -> Str(<<"t">>)
      [] OTHER -> Undefined

withPage(comment, hasPageMap) ==
    IF Truthy(comment.nodeId)
    THEN [comment EXCEPT !.page = IF hasPageMap
                                  THEN PageOfNode(commentNodeId(comment.nodeId.val))
                                  ELSE Undefined]
    ELSE comment

withPreview(comment) ==
    IF Truthy(comment.nodeId)
    THEN [comment EXCEPT !.nodeTextPreview =
                             PreviewOfNode(commentNodeId(comment.nodeId.val))]
    ELSE comment

filterComments(allComments, options, limit) ==
    LET targetNodeId == IF Truthy(options.nodeId)
                        THEN commentNodeId(options.nodeId.val) ELSE <<>>
        targetPage == IF options.page = Undefined THEN <<>>
                      ELSE ToLowerCase(Trim(options.page.val))
        paged == [i \in DOMAIN allComments |->
                      withPage(allComments[i], targetPage # <<>>)]
        Unresolved(comment) == IF options.unresolved THEN ~comment.resolved ELSE TRUE
        OnNode(comment) ==
            IF targetNodeId # <<>>
            THEN commentNodeId(StringOr(comment.nodeId, <<>>)) = targetNodeId
            ELSE TRUE
        OnPage(comment) ==
            IF targetPage # <<>>
            THEN Includes(ToLowerCase(StringOr(comment.page, <<>>)), targetPage)
            ELSE TRUE
        Since(comment) ==
            IF options.since # Null THEN comment.createdAt.val >= options.since.val ELSE TRUE
        Until(comment) ==
            IF options.until # Null THEN comment.createdAt.val <= options.until.val ELSE TRUE
    IN  SliceTo(Filter(Filter(Filter(Filter(Filter(paged, Unresolved), OnNode),
                                     OnPage), Since), Until),
                limit)

RECURSIVE Dedupe(_)
Dedupe(items) ==
    IF items = <<>> THEN <<>>
    ELSE LET front == Dedupe(SubSeq(items, 1, Len(items) - 1))
             last == items[Len(items)]
         IN  IF \E i \in DOMAIN front : front[i] = last THEN front
             ELSE Append(front, last)

\* the node IDs the previews are fetched for
previewNodeIds(filtered) ==
    LET IsAnchored(comment) == Truthy(comment.nodeId)
        anchored == Filter(filtered, IsAnchored)
    IN  Dedupe([i \in DOMAIN anchored |-> commentNodeId(anchored[i].nodeId.val)])

Printed(filtered, requests, notice) ==
    [status |-> "done", error |-> "", requests |-> requests, notice |-> notice,
     count |-> Len(filtered), comments |-> filtered]

Rejected(kind, requests) ==
    [status |-> "exit1", error |-> kind, requests |-> requests, notice |-> FALSE,
     count |-> 0, comments |-> <<>>]

getDesignComments_PreviewFailureThrown(allComments, options, failing) ==
    LET limit == IF options.limit # Undefined /\ options.limit.val > 0
                 THEN options.limit.val \div 1000 ELSE DefaultLimit
        targetPage == IF options.page = Undefined THEN <<>>
                      ELSE ToLowerCase(Trim(options.page.val))
        views == [i \in DOMAIN allComments |-> toCommentView(allComments[i])]
        filtered == filterComments(views, options, limit)
        nodeIds == previewNodeIds(filtered)
        fileRequest == IF targetPage # <<>> THEN <<"getFile">> ELSE <<>>
    IN  IF options.since # Null /\ options.until # Null
           /\ options.since.val > options.until.val
        THEN Rejected("validation", <<>>)
        ELSE IF failing = "getComments"
        THEN Rejected("remote-API", <<"getComments">>)
        ELSE IF targetPage # <<>> /\ failing = "getFile"
        THEN Rejected("remote-API", <<"getComments", "getFile">>)
        ELSE IF options.nodePreview /\ nodeIds # <<>>
        THEN IF failing = "getFileNodes"
             THEN Rejected("remote-API",
                           <<"getComments">> \o fileRequest \o <<"getFileNodes">>)
             ELSE Printed([i \in DOMAIN filtered |-> withPreview(filtered[i])],
                          <<"getComments">> \o fileRequest \o <<"getFileNodes">>,
                          FALSE)
        ELSE Printed(filtered, <<"getComments">> \o fileRequest, FALSE)

\* failing is the API call that fails if the command makes it
getDesignComments(allComments, options, failing) ==
    LET limit == IF options.limit # Undefined /\ options.limit.val > 0
                 THEN options.limit.val \div 1000 ELSE DefaultLimit
        targetPage == IF options.page = Undefined THEN <<>>
                      ELSE ToLowerCase(Trim(options.page.val))
        views == [i \in DOMAIN allComments |-> toCommentView(allComments[i])]
        filtered == filterComments(views, options, limit)
        nodeIds == previewNodeIds(filtered)
        fileRequest == IF targetPage # <<>> THEN <<"getFile">> ELSE <<>>
    IN  IF options.since # Null /\ options.until # Null
           /\ options.since.val > options.until.val
        THEN Rejected("validation", <<>>)
        ELSE IF failing = "getComments"
        THEN Rejected("remote-API", <<"getComments">>)
        ELSE IF targetPage # <<>> /\ failing = "getFile"
        THEN Rejected("remote-API", <<"getComments", "getFile">>)
        ELSE IF options.nodePreview /\ nodeIds # <<>>
        THEN IF failing = "getFileNodes"
             THEN Printed(filtered,
                          <<"getComments">> \o fileRequest \o <<"getFileNodes">>,
                          options.format # "json")
             ELSE Printed([i \in DOMAIN filtered |-> withPreview(filtered[i])],
                          <<"getComments">> \o fileRequest \o <<"getFileNodes">>,
                          FALSE)
        ELSE Printed(filtered, <<"getComments">> \o fileRequest, FALSE)

----------------------------------------------------------------------------
(* The comments command run on the comments of a file *)

MaxComments == 2

CommentNodeIds == {Undefined, Str(<<"1", "-", "2">>), Str(<<"1", ":", "3">>)}
ResolvedAts == {Undefined, Str(<<"d">>)}

\* the comments of the API's answer, the i-th made on day i
CommentLists(maxComments) ==
    UNION {{[i \in 1..n |->
                [id |-> i, created_at |-> Num(1000 * i),
                 resolved_at |-> resolvedAts[i], node_id |-> nodeIds[i]]] :
            resolvedAts \in [1..n -> ResolvedAts],
            nodeIds \in [1..n -> CommentNodeIds]} :
           n \in 0..maxComments}

CommentsOptions ==
    [format : {"json", "text"},
     unresolved : BOOLEAN,
     limit : {Undefined, Num(1000)},
     nodeId : {Undefined, Str(<<"1", "-", "2">>)},
     page : {Undefined, Str(<<"B">>)},
     since : {Null, Num(2000)},
     until : {Null, Num(1000)},
     nodePreview : BOOLEAN]

InitComments ==
    /\ commentList \in CommentLists(MaxComments)
    /\ commentCall = NoCall
    /\ commentOut = Null
    /\ InitIdsIdle /\ InitNodesIdle /\ InitStylesIdle /\ InitDiffIdle
    /\ InitAuditIdle /\ InitCmdIdle /\ InitExportIdle /\ InitAuthIdle

GetDesignComments ==
    /\ commentCall = NoCall
    /\ \E options \in CommentsOptions,
          failing \in {"none", "getComments", "getFile", "getFileNodes"} :
           /\ commentCall' = [fn |-> "getDesignComments", options |-> options,
                              failing |-> failing]
           /\ commentOut' = getDesignComments(commentList, options, failing)
    /\ UNCHANGED <<commentList, idVars, nodeVars, styleVars, diffVars,
                   auditVars, cmdVars, exportVars, authVars>>

NextComments == GetDesignComments

SpecComments == InitComments /\ [][NextComments]_vars

\* C18: when the comments command's node-preview fetch fails, the command
\* still outputs exactly the filtered and limited comment list (same
\* comments, same order, same count) with no node text preview on any
\* comment, and completes without reporting an error to the dispatcher.
PreviewFetchFailed ==
    /\ commentCall # NoCall
    /\ commentCall.failing = "getFileNodes"
    /\ commentOut.requests # <<>>
    /\ Last(commentOut.requests) = "getFileNodes"

\* the comments that pass every filter of the options, by their position in
\* the API's answer
PassesFilters(i) ==
    LET comment == commentList[i]
        options == commentCall.options
        nodeId == IF comment.node_id = Undefined THEN <<>>
                  ELSE commentNodeId(comment.node_id.val)
    IN  /\ options.unresolved => comment.resolved_at = Undefined
        /\ options.nodeId # Undefined => nodeId = <<"1", ":", "2">>
        /\ options.page # Undefined => nodeId = <<"1", ":", "2">>
        /\ options.since # Null => i >= 2
        /\ options.until # Null => i <= 1

Thm_C18 ==
    PreviewFetchFailed =>
        LET passing == {i \in DOMAIN commentList : PassesFilters(i)}
            limit == IF commentCall.options.limit = Undefined THEN DefaultLimit ELSE 1
            shown == commentOut.comments
        IN  /\ commentOut.status = "done"
            /\ commentOut.error = ""
            /\ commentOut.count = Len(shown)
            /\ Len(shown) = IF Cardinality(passing) < limit
                            THEN Cardinality(passing) ELSE limit
            /\ \A k \in DOMAIN shown :
                   /\ shown[k].id \in passing
                   /\ Cardinality({i \in passing : i < shown[k].id}) = k - 1
                   /\ shown[k].nodeTextPreview = Undefined
                   /\ shown[k].nodeId = commentList[shown[k].id].node_id
                   /\ shown[k].resolved = (commentList[shown[k].id].resolved_at # Undefined)

\* two comments on the node whose preview would be "t", limited to one: the
\* preview fetch fails and the first is shown without a preview
Wit_C18 ==
    /\ commentCall # NoCall
    /\ PreviewFetchFailed
    /\ Len(commentList) = 2
    /\ commentCall.options.limit = Num(1000)
    /\ commentOut.status = "done"
    /\ commentOut.count = 1
    /\ commentOut.comments[1].nodeId = Str(<<"1", "-", "2">>)
    /\ commentOut.comments[1].nodeTextPreview = Undefined

----------------------------------------------------------------------------
(* Further properties of the commands' control flow *)

StylesFetches == <<"getFileNodes", "getFile">>

IsCompletion(event) == event.ev \in {"response", "failure"}
IsNotResponse(event) == event.ev # "response"

\* C21: in the styles command the node-subset fetch and the full-file fetch
\* are issued concurrently and awaited jointly: both requests are sent before
\* either completes; parent-map construction, style derivation and output
\* start only after both have completed; what is derived from and printed is
\* the same whichever completes first; when either fails nothing is printed.
Thm_C21 ==
    (cmdInput # Null /\ cmdInput.command = "styles") =>
        /\ \A i \in DOMAIN cmdLog :
               (IsCompletion(cmdLog[i]) /\ cmdLog[i].kind # "configuration")
               => \A k \in DOMAIN StylesFetches :
                      \E j \in 1..(i - 1) :
                          cmdLog[j].ev = "request" /\ cmdLog[j].api = StylesFetches[k]
        /\ \A i \in DOMAIN cmdLog :
               cmdLog[i].ev \in {"joined", "derive", "output"}
               => \A k \in DOMAIN StylesFetches :
                      \E j \in 1..(i - 1) :
                          cmdLog[j] = ResponseEvent(StylesFetches[k])
        /\ \A i \in DOMAIN cmdLog :
               cmdLog[i].ev = "joined" => cmdLog[i].results = StylesFetches
        /\ cmdStatus = "done" =>
               LET token == getFigmaToken(cmdInput.env, cmdInput.config)
               IN  SelectSeq(cmdLog, IsNotResponse)
                       = <<RequestEvent("getFileNodes", token),
                           RequestEvent("getFile", token),
                           JoinedEvent(StylesFetches),
                           StepEvent("derive"), StepEvent("derive"),
                           StepEvent("output")>>
        /\ (\E i \in DOMAIN cmdLog : cmdLog[i].ev = "failure")
               => /\ cmdStatus = "exit1"
                  /\ \A j \in DOMAIN cmdLog : cmdLog[j].ev # "output"

\* a styles run in which the full-file fetch completes before the node fetch
Wit_C21 ==
    /\ cmdInput # Null
    /\ cmdInput.command = "styles"
    /\ cmdStatus = "done"
    /\ Len(cmdLog) = 8
    /\ cmdLog[1].ev = "request" /\ cmdLog[1].api = "getFileNodes"
    /\ cmdLog[2].ev = "request" /\ cmdLog[2].api = "getFile"
    /\ cmdLog[3] = ResponseEvent("getFile")
    /\ cmdLog[4] = ResponseEvent("getFileNodes")
    /\ cmdLog[8] = StepEvent("output")

\* the run has terminated: "done" is exit code 0, "exit1" is exit code 1
CommandEnded == cmdStatus \in {"done", "exit1"}

\* an error message printed by the catch of an export batch (export.ts 170)
\* or for a download that was not ok (export.ts 164); the run goes on
PrintedByExport(event) == cmdInput.command = "export" /\ event.ev = "failure"

\* C22 as stated: a command run terminates with exit code 1 exactly when an
\* error was reported during the run, and with exit code 0 otherwise.
Orig_C22 ==
    CommandEnded =>
        (cmdStatus = "exit1"
             <=> \E i \in DOMAIN cmdLog :
                     cmdLog[i].ev = "error" \/ PrintedByExport(cmdLog[i]))

\* C22, amended: a command run terminates with exit code 1 exactly when an
\* error reached the top-level dispatcher, which reports it, and with exit
\* code 0 otherwise; the failures that the export command prints for a batch
\* or a download leave the exit code 0.
Thm_C22 ==
    /\ CommandEnded =>
           (cmdStatus = "exit1" <=> \E i \in DOMAIN cmdLog : cmdLog[i].ev = "error")
    /\ (\E i \in DOMAIN cmdLog : cmdLog[i].ev = "error") =>
           /\ cmdStatus = "exit1"
           /\ Last(cmdLog).ev = "error"
           /\ \A i \in 1..(Len(cmdLog) - 1) : cmdLog[i].ev # "error"

\* an inspect of a node that is not in the fetched file ends with exit code 1
Wit_C22 ==
    /\ cmdInput # Null
    /\ cmdInput.command = "inspect"
    /\ cmdStatus = "exit1"
    /\ Len(cmdLog) = 2
    /\ cmdLog[1].ev = "request"
    /\ cmdLog[2] = ErrorEvent("not-found")

IsImageRequest(event) == event.ev = "request" /\ event.api = "getImages"
IsImageWrite(event) == event.ev = "write" /\ event.results # <<>>

RECURSIVE Concat(_)
Concat(lists) == IF lists = <<>> THEN <<>> ELSE Head(lists) \o Concat(Tail(lists))

\* the batches requested so far, each the list of its nodes
RequestedBatches ==
    LET requests == SelectSeq(cmdLog, IsImageRequest)
    IN  [i \in DOMAIN requests |-> requests[i].results]

\* the nodes whose image file has been written so far
WrittenNodes ==
    LET writes == SelectSeq(cmdLog, IsImageWrite)
    IN  [i \in DOMAIN writes |-> writes[i].results[1]]

----------------------------------------------------------------------------
(* The export command's helpers: src/src/commands/export.ts                *)

MaxCropFields == 5

Bool(b) == [kind |-> "boolean", val |-> b]
NaN == [kind |-> "number", nan |-> TRUE]
NegativeInfinity == [kind |-> "number", infinite |-> TRUE, negative |-> TRUE]

\* Number.isFinite
NumberIsFinite(v) == v.kind = "number" /\ "val" \in DOMAIN v

Threw(message) == [status |-> "thrown", error |-> message]
Returned(result) == [status |-> "returned", result |-> result]

IsDigits(s) == \A i \in 1..Len(s) : \E d \in 1..10 : Digits[d] = s[i]
DigitValue(c) == (CHOOSE d \in 1..10 : Digits[d] = c) - 1

RECURSIVE DigitsValue(_)
DigitsValue(s) ==
    IF s = <<>> THEN 0
    ELSE DigitsValue(SubSeq(s, 1, Len(s) - 1)) * 10 + DigitValue(s[Len(s)])

\* the thousandths a fraction's digits stand for (up to three digits)
FractionValue(s) ==
    DigitsValue([i \in 1..3 |-> IF i <= Len(s) THEN s[i] ELSE "0"])

InfinityLiteral == <<"I", "n", "f", "i", "n", "i", "t", "y">>

\* an unsigned decimal literal: digits, digits with a fraction, or Infinity
IsDecimal(s) ==
    LET dots == {i \in 1..Len(s) : s[i] = "."}
    IN  \/ s # <<>> /\ IsDigits(s)
        \/ /\ Cardinality(dots) = 1
           /\ Len(s) > 1
           /\ \A i \in 1..Len(s) : i \in dots \/ IsDigits(<<s[i]>>)

DecimalValue(s) ==
    LET dots == {i \in 1..Len(s) : s[i] = "."}
    IN  IF dots = {} THEN DigitsValue(s) * 1000
        ELSE LET d == CHOOSE i \in dots : TRUE
             IN  DigitsValue(SubSeq(s, 1, d - 1)) * 1000
                     + FractionValue(SubSeq(s, d + 1, Len(s)))

Unsigned(s) ==
    IF s = InfinityLiteral THEN PositiveInfinity
    ELSE IF IsDecimal(s) THEN Num(DecimalValue(s))
    ELSE NaN

Negate(v) ==
    IF v = NaN THEN NaN
    ELSE IF v = PositiveInfinity THEN NegativeInfinity
    ELSE Num(0 - v.val)

\* Number(text): the StringToNumber conversion on decimal text. White space
\* around the text is dropped, and text that is empty after that is 0.
Number(text) ==
    LET t == Trim(text)
    IN  IF t = <<>> THEN Num(0)
        ELSE IF Head(t) = "-" THEN Negate(Unsigned(Tail(t)))
        ELSE IF Head(t) = "+" THEN Unsigned(Tail(t))
        ELSE Unsigned(t)

parseCropRect(text) ==
    LET fields == Split(text)
        parts == [k \in 1..Len(fields) |-> Number(Trim(fields[k]))]
    IN  IF Len(parts) # 4 \/ \E k \in 1..Len(parts) : ~NumberIsFinite(parts[k])
        THEN Threw("Invalid --crop value. Expected format: x,y,width,height")
        ELSE IF parts[3].val <= 0 \/ parts[4].val <= 0
        THEN Threw("Crop width and height must be greater than 0.")
        ELSE Returned([x |-> parts[1], y |-> parts[2],
                       width |-> parts[3], height |-> parts[4]])

resolveExportScale_RetinaFirst(scaleOption, retina) ==
    LET scale == IF retina = Bool(TRUE) THEN Num(3000)
                 ELSE IF scaleOption \in {Undefined, Null} THEN Num(2000)
                 ELSE scaleOption
    IN  IF ~NumberIsFinite(scale) \/ scale.val < 1000 \/ scale.val > 4000
        THEN Threw("Scale must be between 1 and 4.")
        ELSE Returned(scale)

resolveExportScale(scaleOption, retina) ==
    LET scale == IF scaleOption \in {Undefined, Null}
                 THEN (IF retina = Bool(TRUE) THEN Num(3000) ELSE Num(2000))
                 ELSE scaleOption
    IN  IF ~NumberIsFinite(scale) \/ scale.val < 1000 \/ scale.val > 4000
        THEN Threw("Scale must be between 1 and 4.")
        ELSE Returned(scale)

\* Math.floor of a number of thousandths
MathFloor(n) == (n \div 1000) * 1000

Least(a, b) == IF a < b THEN a ELSE b

\* the region PNG.bitblt copies out of the image, or the error
applyPngCrop_Unclamped(image, crop) ==
    LET x == MathMax(0, MathFloor(crop.x.val))
        y == MathMax(0, MathFloor(crop.y.val))
        width == MathMax(1000, MathFloor(crop.width.val))
        height == MathMax(1000, MathFloor(crop.height.val))
        maxWidth == MathMax(0, image.width - x)
        maxHeight == MathMax(0, image.height - y)
        finalWidth == width
        finalHeight == height
    IN  IF maxWidth <= 0 \/ maxHeight <= 0
        THEN Threw("Crop rectangle falls outside exported image bounds.")
        ELSE Returned([x |-> x, y |-> y,
                       width |-> finalWidth, height |-> finalHeight])

applyPngCrop(image, crop) ==
    LET x == MathMax(0, MathFloor(crop.x.val))
        y == MathMax(0, MathFloor(crop.y.val))
        width == MathMax(1000, MathFloor(crop.width.val))
        height == MathMax(1000, MathFloor(crop.height.val))
        maxWidth == MathMax(0, image.width - x)
        maxHeight == MathMax(0, image.height - y)
        finalWidth == Least(width, maxWidth)
        finalHeight == Least(height, maxHeight)
    IN  IF finalWidth <= 0 \/ finalHeight <= 0
        THEN Threw("Crop rectangle falls outside exported image bounds.")
        ELSE Returned([x |-> x, y |-> y,
                       width |-> finalWidth, height |-> finalHeight])

\* the fields a --crop value is written with
CropFields ==
    {<<>>, <<" ">>, <<"0">>, <<" ", "2">>, <<"a">>, <<"-", "1">>,
     <<"0", ".", "5">>, InfinityLiteral}

RECURSIVE JoinCommas(_)
JoinCommas(fields) ==
    IF Len(fields) = 1 THEN fields[1]
    ELSE fields[1] \o <<",">> \o JoinCommas(Tail(fields))

CropValues(maxFields) ==
    {JoinCommas(f) : f \in UNION {[1..k -> CropFields] : k \in 1..maxFields}}

\* the scales parseFloat hands over, in thousandths
ScaleOptions ==
    {Undefined, NaN, PositiveInfinity, NegativeInfinity}
        \cup {Num(n) : n \in {-1000, 0, 999, 1000, 1001, 2000, 2500, 3000,
                              3999, 4000, 4001, 5000}}
RetinaFlags == {Undefined, Bool(TRUE), Bool(FALSE)}

\* exported images, sides in thousandths of a pixel
ImageSides == {1000, 2000, 3000}

InitExport ==
    /\ exportArgs \in
           {[fn |-> "parseCropRect", value |-> v] : v \in CropValues(MaxCropFields)}
               \cup {[fn |-> "resolveExportScale", scaleOption |-> s, retina |-> r] :
                        s \in ScaleOptions, r \in RetinaFlags}
    /\ exportCall = NoCall
    /\ exportOut = Null
    /\ InitIdsIdle /\ InitNodesIdle /\ InitStylesIdle /\ InitDiffIdle
    /\ InitAuditIdle /\ InitCmdIdle /\ InitCommentsIdle /\ InitAuthIdle

otherOfExport ==
    <<idVars, nodeVars, styleVars, diffVars, auditVars, cmdVars, commentVars,
      authVars>>

ParseCropRect ==
    /\ exportCall = NoCall
    /\ exportArgs.fn = "parseCropRect"
    /\ exportCall' = [fn |-> "parseCropRect"]
    /\ exportOut' = parseCropRect(exportArgs.value)
    /\ UNCHANGED <<exportArgs, otherOfExport>>

ResolveExportScale ==
    /\ exportCall = NoCall
    /\ exportArgs.fn = "resolveExportScale"
    /\ exportCall' = [fn |-> "resolveExportScale"]
    /\ exportOut' = resolveExportScale(exportArgs.scaleOption, exportArgs.retina)
    /\ UNCHANGED <<exportArgs, otherOfExport>>

\* exportAssets: the rectangle parseCropRect returned is applied to each
\* downloaded image
ApplyPngCrop ==
    /\ exportCall = [fn |-> "parseCropRect"]
    /\ exportOut.status = "returned"
    /\ \E w \in ImageSides, h \in ImageSides :
           LET image == [width |-> w, height |-> h]
           IN  /\ exportCall' = [fn |-> "applyPngCrop", image |-> image,
                                 crop |-> exportOut.result]
               /\ exportOut' = applyPngCrop(image, exportOut.result)
    /\ UNCHANGED <<exportArgs, otherOfExport>>

NextExport == ParseCropRect \/ ResolveExportScale \/ ApplyPngCrop

SpecExport == InitExport /\ [][NextExport]_vars

----------------------------------------------------------------------------
(* C23, C24, C30 *)

\* a numeric field: white space aside, a decimal numeral with an optional sign
IsNumericField(field) ==
    LET t == Trim(field)
        body == IF t # <<>> /\ Head(t) \in {"-", "+"} THEN Tail(t) ELSE t
    IN  IsDecimal(body)

\* C23 as stated: parseCropRect rejects every input that does not have exactly
\* four comma-separated fields, every input with a non-numeric field and every
\* input whose width or height is not positive, and returns every other input
\* as the rectangle of its four fields in order.
Orig_C23 ==
    exportCall = [fn |-> "parseCropRect"] =>
        LET fields == Split(exportArgs.value)
            numeric == \A k \in 1..Len(fields) : IsNumericField(fields[k])
        IN  IF Len(fields) # 4 \/ ~numeric
            THEN exportOut.status = "thrown"
            ELSE IF Number(fields[3]).val <= 0 \/ Number(fields[4]).val <= 0
            THEN exportOut.status = "thrown"
            ELSE exportOut = Returned([x |-> Number(fields[1]),
                                       y |-> Number(fields[2]),
                                       width |-> Number(fields[3]),
                                       height |-> Number(fields[4])])

\* an empty second field is taken for 0
Wit_C23 ==
    /\ exportCall = [fn |-> "parseCropRect"]
    /\ exportArgs.value = <<"0", ",", ",", " ", "2", ",", " ", "2">>
    /\ exportOut = Returned([x |-> Num(0), y |-> Num(0),
                             width |-> Num(2000), height |-> Num(2000)])

\* C24: resolveExportScale returns the explicit scale whenever one is given
\* and lies in [1, 4], whatever the retina flag is; returns 3 when no scale is
\* given and retina is set, and 2 when neither is given; and throws for every
\* non-finite scale and every scale below 1 or above 4.
Thm_C24 ==
    exportCall = [fn |-> "resolveExportScale"] =>
        LET scale == exportArgs.scaleOption
            retina == exportArgs.retina
        IN  /\ (NumberIsFinite(scale) /\ scale.val >= 1000 /\ scale.val <= 4000)
                   => exportOut = Returned(scale)
            /\ (scale = Undefined /\ retina = Bool(TRUE))
                   => exportOut = Returned(Num(3000))
            /\ (scale = Undefined /\ retina # Bool(TRUE))
                   => exportOut = Returned(Num(2000))
            /\ (scale.kind = "number" /\ ~NumberIsFinite(scale))
                   => exportOut.status = "thrown"
            /\ (NumberIsFinite(scale) /\ (scale.val < 1000 \/ scale.val > 4000))
                   => exportOut.status = "thrown"

\* an explicit scale of 2 is honoured although retina is set
Wit_C24 ==
    /\ exportCall = [fn |-> "resolveExportScale"]
    /\ exportArgs.scaleOption = Num(2000)
    /\ exportArgs.retina = Bool(TRUE)
    /\ exportOut = Returned(Num(2000))

\* C30: for every image size and every crop rectangle parseCropRect accepts,
\* applyPngCrop either throws the out-of-bounds error or copies a region with
\* origin x >= 0, y >= 0 and size w >= 1, h >= 1 that lies within the image.
Thm_C30 ==
    (exportCall.fn = "applyPngCrop") =>
        \/ exportOut = Threw("Crop rectangle falls outside exported image bounds.")
        \/ /\ exportOut.status = "returned"
           /\ exportOut.result.x >= 0
           /\ exportOut.result.y >= 0
           /\ exportOut.result.width >= 1000
           /\ exportOut.result.height >= 1000
           /\ exportOut.result.x + exportOut.result.width
                  <= exportCall.image.width
           /\ exportOut.result.y + exportOut.result.height
                  <= exportCall.image.height

\* a rectangle starting left of the image and wider than it is cut down to
\* the image; one narrower than a pixel is widened to one pixel
Wit_C30 ==
    /\ exportCall.fn = "applyPngCrop"
    /\ exportCall.crop.x = Num(-1000)
    /\ exportCall.crop.width = Num(2000)
    /\ exportCall.crop.height = Num(500)
    /\ exportCall.image = [width |-> 1000, height |-> 3000]
    /\ exportOut = Returned([x |-> 0, y |-> 0, width |-> 1000, height |-> 1000])

----------------------------------------------------------------------------
(* The auth command: setupAuth of src/src/commands/styles.ts and the config
   layer of src/unnamed/part_005.  File contents and tokens are sequences of
   symbols: one-character strings, the words "export" and "FIGMA_TOKEN=" each
   taken as one symbol, "U+2028" for the line separator and "U+0060" for the
   grave accent. *)

MaxProfileLines == 3

LineTerminators == {"\n", "U+2028"}
WhiteSpace == {" ", "\t"} \cup LineTerminators

RECURSIVE StringTrimStart(_)
StringTrimStart(s) ==
    IF s # <<>> /\ Head(s) \in WhiteSpace THEN StringTrimStart(Tail(s)) ELSE s

RECURSIVE StringTrimEnd(_)
StringTrimEnd(s) ==
    IF s # <<>> /\ s[Len(s)] \in WhiteSpace
    THEN StringTrimEnd(SubSeq(s, 1, Len(s) - 1))
    ELSE s

StringTrim(s) == StringTrimEnd(StringTrimStart(s))

Quotes == {"'", "\""}

RECURSIVE StripLeadingQuotes(_)
StripLeadingQuotes(s) ==
    IF s # <<>> /\ Head(s) \in Quotes THEN StripLeadingQuotes(Tail(s)) ELSE s

RECURSIVE StripTrailingQuotes(_)
StripTrailingQuotes(s) ==
    IF s # <<>> /\ s[Len(s)] \in Quotes
    THEN StripTrailingQuotes(SubSeq(s, 1, Len(s) - 1))
    ELSE s

\* rawToken.trim().replace(/^['"]+|['"]+$/g, '')
normalizeToken(rawToken) ==
    LET cleaned == StripTrailingQuotes(StripLeadingQuotes(StringTrim(rawToken)))
    IN  IF cleaned = <<>> THEN Threw("Token cannot be empty.")
        ELSE Returned(cleaned)

\* value.replace(/(["\\$`])/g, '\\$1')
RECURSIVE shellEscapeDoubleQuoted(_)
shellEscapeDoubleQuoted(s) ==
    IF s = <<>> THEN <<>>
    ELSE (IF Head(s) \in {"\"", "\\", "$", "U+0060"}
          THEN <<"\\", Head(s)>> ELSE <<Head(s)>>)
             \o shellEscapeDoubleQuoted(Tail(s))

ControlCharacters == {"\t", "\n"}

\* the test of assertSafeShellToken: /[\u0000-\u001F\u007F`]/
IsUnsafeShellToken(token) ==
    \E i \in 1..Len(token) : token[i] \in ControlCharacters \cup {"U+0060"}

\* the least index from i on that holds no white space, Len(s) + 1 if none
RECURSIVE SkipWhiteSpace(_, _)
SkipWhiteSpace(s, i) ==
    IF i <= Len(s) /\ s[i] \in WhiteSpace THEN SkipWhiteSpace(s, i + 1) ELSE i

\* the index of the last symbol of the line that position i lies on
RECURSIVE LineEnd(_, _)
LineEnd(s, i) ==
    IF i < Len(s) /\ s[i + 1] \notin LineTerminators THEN LineEnd(s, i + 1) ELSE i

\* /^\s*export\s+FIGMA_TOKEN=.*$/m tried at position i: the index of the
\* last symbol matched, 0 if there is no match
MatchExport(s, i) ==
    LET word == SkipWhiteSpace(s, i)
        name == SkipWhiteSpace(s, word + 1)
    IN  IF /\ (i = 1 \/ s[i - 1] \in LineTerminators)
           /\ word <= Len(s)
           /\ s[word] = "export"
           /\ name > word + 1
           /\ name <= Len(s)
           /\ s[name] = "FIGMA_TOKEN="
        THEN LineEnd(s, name)
        ELSE 0

\* existing.replace(exportPattern, '') from position i on
RECURSIVE RemoveExports(_, _)
RemoveExports(s, i) ==
    IF i > Len(s) THEN <<>>
    ELSE IF MatchExport(s, i) > 0 THEN RemoveExports(s, MatchExport(s, i) + 1)
    ELSE <<s[i]>> \o RemoveExports(s, i + 1)

\* the file is absent, or holds text
Text(content) == [kind |-> "text", content |-> content]
ReadOrEmpty(file) == IF file = Undefined THEN <<>> ELSE file.content

ExportLine(cleanToken) ==
    <<"export", " ", "FIGMA_TOKEN=", "\"">>
        \o shellEscapeDoubleQuoted(cleanToken) \o <<"\"">>

\* the content upsertShellTokenExport writes to a profile that is not a fish
\* profile, or the error it throws before writing
upsertShellTokenExport(token, profile) ==
    LET cleanToken == StringTrim(token)
        withoutToken == StringTrimEnd(RemoveExports(ReadOrEmpty(profile), 1))
    IN  IF cleanToken = <<>> THEN Threw("Token cannot be empty.")
        ELSE IF IsUnsafeShellToken(cleanToken)
        THEN Threw("Token contains unsupported control characters for shell profile export.")
        ELSE Returned(IF withoutToken # <<>>
                      THEN withoutToken \o <<"\n", "\n">>
                               \o ExportLine(cleanToken) \o <<"\n">>
                      ELSE ExportLine(cleanToken) \o <<"\n">>)

\* the config file: absent, unreadable, or an object with an optional token
Config(token) == [kind |-> "config", figmaToken |-> token]
Corrupt == [kind |-> "corrupt"]

readConfig(file) == IF file \in {Undefined, Corrupt} THEN Config(Undefined) ELSE file

\* the config saveFigmaToken writes, or the error it throws before writing
saveFigmaToken(token, file) ==
    LET cleanToken == StringTrim(token)
    IN  IF cleanToken = <<>> THEN Threw("Token cannot be empty.")
        ELSE Returned([readConfig(file) EXCEPT !.figmaToken = Str(cleanToken)])

\* what the command has done: files written, output printed, the error that
\* ended it
WriteEvent(file, content) == [ev |-> "write", file |-> file, content |-> content]
PrintEvent(what) == [ev |-> "print", file |-> "", content |-> Str(what)]
ThrownEvent(message) == [ev |-> "error", file |-> "", content |-> Str(message)]

\* the lines profiles are made of
ProfileLines ==
    {<<>>, <<" ">>, <<"a">>,
     <<"export", " ", "FIGMA_TOKEN=", "a">>,
     <<" ", "export", " ", " ", "FIGMA_TOKEN=">>,
     <<"export">>, <<"FIGMA_TOKEN=", "a">>,
     <<"a", "export", " ", "FIGMA_TOKEN=">>,
     <<"export", " ", "a">>}

RECURSIVE JoinNewlines(_)
JoinNewlines(lines) ==
    IF lines = <<>> THEN <<>>
    ELSE IF Len(lines) = 1 THEN lines[1]
    ELSE lines[1] \o <<"\n">> \o JoinNewlines(Tail(lines))

\* profiles of up to maxLines lines, with and without a final newline
Profiles(maxLines) ==
    {Undefined} \cup
    {Text(JoinNewlines(lines) \o end) :
        lines \in UNION {[1..n -> ProfileLines] : n \in 1..maxLines},
        end \in {<<>>, <<"\n">>}}

SmallProfiles ==
    {Undefined, Text(<<"a", "\n">>),
     Text(<<"export", " ", "FIGMA_TOKEN=", "a", "\n">>)}

\* what is typed or passed as --token: plain, padded, quoted, with a symbol
\* the shell expands, with a grave accent, with a tab or a line separator
\* inside, empty, and blank between quotes
EnteredTokens ==
    {<<"t">>, <<" ", "t", " ">>, <<"'", "t", "'">>, <<"t", "$">>,
     <<"t", "U+0060">>, <<"t", "\t", "t">>, <<"t", "U+2028", "t">>,
     <<>>, <<"\"", " ", "\"">>}

Cancelled == [kind |-> "cancelled"]

\* setupAuth runs, and direct calls of upsertShellTokenExport
SetupInputs ==
    {[fn |-> "setupAuth", show |-> show, configOnly |-> configOnly,
      entered |-> entered] :
        show \in BOOLEAN, configOnly \in BOOLEAN,
        entered \in {Str(t) : t \in EnteredTokens} \cup {Cancelled}}

UpsertInputs ==
    {[fn |-> "upsertShellTokenExport", show |-> FALSE, configOnly |-> FALSE,
      entered |-> Str(t)] :
        t \in {<<"t">>, <<" ", "t">>, <<"t", "$">>, <<"t", "U+2028", "t">>,
               <<"t", "U+0060">>}}

InitAuth ==
    /\ \/ /\ authInput \in SetupInputs
          /\ configFile \in {Undefined, Corrupt, Config(Str(<<"o">>))}
          /\ profileFile \in SmallProfiles
       \/ /\ authInput \in UpsertInputs
          /\ configFile = Undefined
          /\ profileFile \in Profiles(MaxProfileLines)
    /\ authPc = "start"
    /\ authLog = <<>>
    /\ InitIdsIdle /\ InitNodesIdle /\ InitStylesIdle /\ InitDiffIdle
    /\ InitAuditIdle /\ InitCmdIdle /\ InitCommentsIdle /\ InitExportIdle

otherOfAuth ==
    <<idVars, nodeVars, styleVars, diffVars, auditVars, cmdVars, commentVars,
      exportVars>>

\* setupAuth with --show: the status is printed
ShowAuth ==
    /\ authPc = "start"
    /\ authInput.fn = "setupAuth"
    /\ authInput.show
    /\ authLog' = Append(authLog, PrintEvent("Figma Auth Status"))
    /\ authPc' = "done"
    /\ UNCHANGED <<authInput, configFile, profileFile, otherOfAuth>>

\* normalizeToken(options.token || await promptForToken())
ReadToken ==
    /\ authPc = "start"
    /\ authInput.fn = "setupAuth"
    /\ ~authInput.show
    /\ IF authInput.entered = Cancelled
       THEN /\ authLog' = Append(authLog, ThrownEvent("Token entry cancelled."))
            /\ authPc' = "failed"
       ELSE LET token == normalizeToken(authInput.entered.val)
            IN  IF token.status = "thrown"
                THEN /\ authLog' = Append(authLog, ThrownEvent(token.error))
                     /\ authPc' = "failed"
                ELSE /\ authLog' = authLog
                     /\ authPc' = "token"
    /\ UNCHANGED <<authInput, configFile, profileFile, otherOfAuth>>

\* the token setupAuth works with once normalizeToken has returned
NormalizedToken == normalizeToken(authInput.entered.val).result

\* const configPath = saveFigmaToken(token), and the line printed after it
SaveFigmaToken ==
    /\ authPc = "token"
    /\ LET saved == saveFigmaToken(NormalizedToken, configFile)
       IN  IF saved.status = "thrown"
           THEN /\ authLog' = Append(authLog, ThrownEvent(saved.error))
                /\ authPc' = "failed"
                /\ UNCHANGED configFile
           ELSE /\ configFile' = saved.result
                /\ authLog' = authLog \o <<WriteEvent("config", saved.result),
                                           PrintEvent("Saved token")>>
                /\ authPc' = "saved"
    /\ UNCHANGED <<authInput, profileFile, otherOfAuth>>

\* the profile step, with the token it is handed
Upsert(token) ==
    LET next == upsertShellTokenExport(token, profileFile)
    IN  IF next.status = "thrown"
        THEN /\ authLog' = Append(authLog, ThrownEvent(next.error))
             /\ authPc' = "failed"
             /\ UNCHANGED profileFile
        ELSE /\ profileFile' = Text(next.result)
             /\ authLog' = Append(authLog, WriteEvent("profile", Text(next.result)))
             /\ authPc' = "done"

\* the profile is updated although --config-only was given
SkipProfile_StillUpdates ==
    /\ authPc = "saved"
    /\ authInput.configOnly
    /\ Upsert(NormalizedToken)
    /\ UNCHANGED <<authInput, configFile, otherOfAuth>>

\* if (options.configOnly) { ...; return; }
SkipProfile ==
    /\ authPc = "saved"
    /\ authInput.configOnly
    /\ authLog' = Append(authLog, PrintEvent("Skipped shell profile update"))
    /\ authPc' = "done"
    /\ UNCHANGED <<authInput, configFile, profileFile, otherOfAuth>>

\* const profilePath = upsertShellTokenExport(token, options.profile)
UpdateProfile ==
    /\ authPc = "saved"
    /\ ~authInput.configOnly
    /\ Upsert(NormalizedToken)
    /\ UNCHANGED <<authInput, configFile, otherOfAuth>>

\* upsertShellTokenExport called on its own
UpsertShellTokenExport ==
    /\ authPc = "start"
    /\ authInput.fn = "upsertShellTokenExport"
    /\ Upsert(authInput.entered.val)
    /\ UNCHANGED <<authInput, configFile, otherOfAuth>>

NextAuth ==
    \/ ShowAuth
    \/ ReadToken
    \/ SaveFigmaToken
    \/ SkipProfile
    \/ UpdateProfile
    \/ UpsertShellTokenExport

SpecAuth == InitAuth /\ [][NextAuth]_vars

----------------------------------------------------------------------------
(* C28, C29 *)

\* the lines of a text: a final newline ends the last line
RECURSIVE SplitLines(_)
SplitLines(s) ==
    IF s = <<>> THEN <<>>
    ELSE IF \A i \in 1..Len(s) : s[i] # "\n" THEN <<s>>
    ELSE LET c == CHOOSE i \in 1..Len(s) :
                      s[i] = "\n" /\ \A j \in 1..(i - 1) : s[j] # "\n"
         IN  <<SubSeq(s, 1, c - 1)>> \o SplitLines(SubSeq(s, c + 1, Len(s)))

IsBlankLine(line) == \A i \in 1..Len(line) : line[i] \in WhiteSpace

\* a line that exports FIGMA_TOKEN: white space, export, white space, and
\* the assignment
IsExportLine(line) ==
    LET word == SkipWhiteSpace(line, 1)
        name == SkipWhiteSpace(line, word + 1)
    IN  /\ word <= Len(line)
        /\ line[word] = "export"
        /\ name > word + 1
        /\ name <= Len(line)
        /\ line[name] = "FIGMA_TOKEN="

ExportLinesOf(s) ==
    {i \in 1..Len(SplitLines(s)) : IsExportLine(SplitLines(s)[i])}

IsOtherLine(line) == ~IsExportLine(line) /\ ~IsBlankLine(line)

\* the lines that say something else, white space at their ends aside
OtherLinesOf(s) ==
    LET kept == SelectSeq(SplitLines(s), IsOtherLine)
    IN  [i \in 1..Len(kept) |-> StringTrimEnd(kept[i])]

ProfileWritten ==
    /\ Len(authLog') = Len(authLog) + 1
    /\ authLog'[Len(authLog')].ev = "write"
    /\ authLog'[Len(authLog')].file = "profile"

\* the token the profile step was handed
ProfileToken ==
    IF authInput.fn = "setupAuth" THEN NormalizedToken ELSE authInput.entered.val

IdempotentStep ==
    ProfileWritten =>
        upsertShellTokenExport(ProfileToken, profileFile')
            = Returned(profileFile'.content)

OneExportLineStep ==
    ProfileWritten =>
        LET lines == SplitLines(profileFile'.content)
        IN  /\ Cardinality(ExportLinesOf(profileFile'.content)) = 1
            /\ IsExportLine(lines[Len(lines)])

OtherLinesKeptStep ==
    ProfileWritten =>
        OtherLinesOf(profileFile'.content) = OtherLinesOf(ReadOrEmpty(profileFile))

\* C28 as stated: upsertShellTokenExport is idempotent, after any call the
\* profile contains exactly one FIGMA_TOKEN export line, placed last, and all
\* other lines of the profile are kept in order.
Orig_C28 == [][IdempotentStep /\ OneExportLineStep /\ OtherLinesKeptStep]_vars

\* the call removed the export line between a line `export` and an
\* assignment of FIGMA_TOKEN, which a second call takes for an export and
\* removes as well
Wit_C28 ==
    /\ authInput # Null
    /\ authInput.fn = "upsertShellTokenExport"
    /\ authInput.entered = Str(<<"t">>)
    /\ authPc = "done"
    /\ profileFile
           = Text(<<"export", "\n", "\n", "FIGMA_TOKEN=", "a", "\n", "\n">>
                      \o ExportLine(<<"t">>) \o <<"\n">>)
    /\ upsertShellTokenExport(<<"t">>, profileFile)
           = Returned(ExportLine(<<"t">>) \o <<"\n">>)

Wrote(file) ==
    \E i \in (Len(authLog) + 1)..Len(authLog') :
        authLog'[i].ev = "write" /\ authLog'[i].file = file

HasWritten(log, file) ==
    \E i \in 1..Len(log) : log[i].ev = "write" /\ log[i].file = file

\* the profile step threw: the command fails after the config was saved
ProfileRejected == authPc = "saved" /\ authPc' = "failed"

SetupAuthStep ==
    (authInput # Null /\ authInput.fn = "setupAuth") =>
        /\ profileFile' # profileFile => Wrote("profile")
        /\ configFile' # configFile => Wrote("config")
        /\ Wrote("profile") =>
               /\ HasWritten(authLog, "config")
               /\ configFile = Config(Str(StringTrim(NormalizedToken)))
        /\ authInput.show =>
               /\ ~Wrote("config") /\ ~Wrote("profile")
               /\ UNCHANGED <<configFile, profileFile>>
        /\ authInput.configOnly =>
               ~Wrote("profile") /\ UNCHANGED profileFile
        /\ ProfileRejected =>
               /\ IsUnsafeShellToken(StringTrim(NormalizedToken))
               /\ ~HasWritten(authLog', "profile")
               /\ UNCHANGED profileFile
               /\ configFile' = Config(Str(StringTrim(NormalizedToken)))

\* C29: setupAuth writes the token to the config file before it touches the
\* shell profile: with --config-only the profile is never written, with
\* --show neither file is written, and when the profile step rejects the
\* token (a control character or a grave accent) the profile is left as it
\* was while the config file already holds the new token.
Thm_C29 == [][SetupAuthStep]_vars

\* a token with a grave accent: the config file holds it, the profile step
\* threw and the profile is as it was
Wit_C29 ==
    /\ authInput # Null
    /\ authInput.fn = "setupAuth"
    /\ authInput.entered = Str(<<"t", "U+0060">>)
    /\ authPc = "failed"
    /\ configFile = Config(Str(<<"t", "U+0060">>))
    /\ profileFile = Text(<<"a", "\n">>)
    /\ authLog
           = <<WriteEvent("config", Config(Str(<<"t", "U+0060">>))),
               PrintEvent("Saved token"),
               ThrownEvent("Token contains unsupported control characters for shell profile export.")>>

====
